---- MODULE Spec2Model ----
(***************************************************************************)
(* Circle of Trust: the streaming three-stage council pipeline             *)
(* (backend/main.py send_message_stream), the concurrent advisor fan-out   *)
(* (backend/ollama_client.py query_advisors_parallel / query_ollama) and   *)
(* the stage functions of backend/council.py, which main.py imports and    *)
(* the tests exercise.                                                     *)
(***************************************************************************)
EXTENDS Integers, Sequences, FiniteSets, TLC

\* ------------------------------------------------------------------ bounds
\* Largest advisor roster explored.
MaxAdvisors == 2

\* ------------------------------------------------------------ text values
\* A text is a sequence of tokens; the reasoning markers are single tokens.
ThinkOpen == "<think>"
ThinkClose == "</think>"
Newline == "\n"
Space == " "

\* The answer text the gateway returns for the i-th call of a Stage-1
\* fan-out and the ranking text for the i-th call of a Stage-2 fan-out:
\* distinct per call, so that an entry names the call that produced it.
AnswerWord == <<"answer1", "answer2", "answer3", "answer4", "answer5", "answer6">>
RankingWord == <<"ranking1", "ranking2", "ranking3", "ranking4", "ranking5", "ranking6">>
SynthesisText == <<"final">>
TitleText == <<"title">>

\* Raw gateway content: the model "thinks" before it answers.
RawAnswer(i) == <<ThinkOpen, "t", ThinkClose, Newline, AnswerWord[i]>>

\* The ranking protocol: a header line, then lines "<rank>. <label>".  A
\* rank mark and a label are one token each.
HeaderLine == "FINAL RANKING:"
RankMark == <<"1.", "2.", "3.", "4.", "5.", "6.">>
Labels == <<"Response A", "Response B", "Response C", "Response D",
            "Response E", "Response F">>

\* What the model of the i-th Stage-2 call writes after its opening word:
\* nothing (no header), a ranking, a ranking interrupted by prose, a header
\* with no ranking under it.
RankingBody ==
    << <<>>,
       <<HeaderLine, Newline, "1.", "Response B", Newline, "2.", "Response A">>,
       <<HeaderLine, Newline, "1.", "Response C", Newline, "2.", "Response A",
         Newline, "done", Newline, "3.", "Response B">>,
       <<HeaderLine, Newline, "n/a">>,
       <<HeaderLine, Newline, "1.", "Response A">>,
       <<HeaderLine>> >>
RawRanking(i) == <<RankingWord[i], Newline>> \o RankingBody[i]

\* query_ollama's return value: a dict with 'content', or None.
None == [ok |-> FALSE, content |-> <<>>]
Content(text) == [ok |-> TRUE, content |-> text]

\* ------------------------------------------------------------- the roster
\* Advisors a council configuration can hold.  update_council_config
\* accepts any list of (name, model) pairs, two advisors of one name
\* included (main.py 164-189 performs no uniqueness check).
AdvisorNames == {"A", "B"}
ModelName == <<"m1", "m2", "m3", "m4", "m5", "m6">>

\* The i-th advisor of a roster runs model ModelName[i]; its name is free.
Rosters ==
    UNION { { [i \in 1..n |-> [name |-> nm[i], model |-> ModelName[i]]] :
                nm \in [1..n -> AdvisorNames] } : n \in 0..MaxAdvisors }

\* config.py: the chairman model of Stage 3.
CHAIRMAN_MODEL == "mistral:latest"

\* --------------------------------------------------------- ResponseSanitizer
\* clean_response_content: reasoning blocks removed (an unterminated block
\* up to the end of the text), newline runs collapsed, whitespace trimmed.
IndexOf(t, tok, from) ==
    LET hits == { k \in from..Len(t) : t[k] = tok }
    IN  IF hits = {} THEN 0 ELSE CHOOSE k \in hits : \A l \in hits : k <= l

\* A marker cut in two, "<th" "ink>" or "</th" "ink>", is a marker again
\* as soon as its halves stand side by side: a text is kept with such
\* halves fused.
OpenHalf == "<th"
CloseHalf == "</th"
EndHalf == "ink>"

RECURSIVE Fuse(_)
Fuse(t) ==
    IF Len(t) < 2 THEN t
    ELSE IF t[1] = OpenHalf /\ t[2] = EndHalf
         THEN <<ThinkOpen>> \o Fuse(SubSeq(t, 3, Len(t)))
    ELSE IF t[1] = CloseHalf /\ t[2] = EndHalf
         THEN <<ThinkClose>> \o Fuse(SubSeq(t, 3, Len(t)))
    ELSE <<t[1]>> \o Fuse(Tail(t))

\* One pass that treats a start marker without an end marker as a block
\* up to the end of the text, and does not look at its own output again.
RemoveThinkOnePass(t) ==
    LET RECURSIVE keep(_)
        keep(s) ==
            LET i == IndexOf(s, ThinkOpen, 1)
            IN  IF i = 0 THEN s
                ELSE LET j == IndexOf(s, ThinkClose, i + 1)
                     IN  IF j = 0 THEN SubSeq(s, 1, i - 1)
                         ELSE SubSeq(s, 1, i - 1) \o keep(SubSeq(s, j + 1, Len(s)))
    IN  Fuse(keep(t))

\* First pass: every block from a start marker to the next end marker is
\* cut out, left to right; what is left closes up.
RemoveClosedBlocks(t) ==
    LET RECURSIVE keep(_)
        keep(s) ==
            LET i == IndexOf(s, ThinkOpen, 1)
                j == IF i = 0 THEN 0 ELSE IndexOf(s, ThinkClose, i + 1)
            IN  IF j = 0 THEN s
                ELSE SubSeq(s, 1, i - 1) \o keep(SubSeq(s, j + 1, Len(s)))
    IN  Fuse(keep(t))

\* A sanitizer that leaves a block without an end marker in the text.
KeepUnclosedBlock(t) == t

\* Second pass: a start marker that is still there has no end marker;
\* the text is cut from it to the end.
RemoveUnclosedBlock(t) ==
    LET i == IndexOf(t, ThinkOpen, 1)
    IN  IF i = 0 THEN t ELSE SubSeq(t, 1, i - 1)

RemoveThink(t) == RemoveUnclosedBlock(RemoveClosedBlocks(t))

IsWhite(tok) == tok \in {Newline, Space}

RECURSIVE Strip(_)
Strip(t) ==
    IF t = <<>> THEN t
    ELSE IF IsWhite(t[1]) THEN Strip(Tail(t))
    ELSE IF IsWhite(t[Len(t)]) THEN Strip(SubSeq(t, 1, Len(t) - 1))
    ELSE t

\* Runs of three or more newlines become two.
RECURSIVE CollapseNewlines(_)
CollapseNewlines(t) ==
    IF Len(t) < 3 THEN t
    ELSE IF t[1] = Newline /\ t[2] = Newline /\ t[3] = Newline
         THEN CollapseNewlines(Tail(t))
         ELSE <<t[1]>> \o CollapseNewlines(Tail(t))

clean_response_content(t) == Strip(CollapseNewlines(RemoveThink(t)))

\* ------------------------------------------------------------ Python dict
\* A dict is a sequence of <<key, value>> pairs with pairwise distinct keys,
\* in insertion order; assigning an existing key replaces its value in place.
\* A list of pairs in place of a dict: a repeated key is kept twice.
DictPutAppending(d, k, v) == Append(d, <<k, v>>)

DictPut(d, k, v) ==
    IF \E j \in DOMAIN d : d[j][1] = k
    THEN [j \in DOMAIN d |-> IF d[j][1] = k THEN <<k, v>> ELSE d[j]]
    ELSE Append(d, <<k, v>>)

RECURSIVE DictFromPairs(_)
DictFromPairs(pairs) ==
    IF pairs = <<>> THEN <<>>
    ELSE LET n == Len(pairs)
         IN  DictPut(DictFromPairs(SubSeq(pairs, 1, n - 1)), pairs[n][1], pairs[n][2])

\* ------------------------------------------------------------------ state
VARIABLES
    ADVISORS,          \* config.ADVISORS, the current council roster
    conv_exists,       \* the conversation of the request is in storage
    messages,          \* roles of the conversation's stored messages
    title,             \* the conversation's stored title
    is_first_message,  \* send_message_stream's local
    pc,                \* where the request / event_generator stands
    events,            \* the SSE event types yielded so far
    tasks1,            \* the query_advisor coroutines of the Stage-1 gather
    tasks2,            \* the query_advisor coroutines of the Stage-2 gather
    chairman,          \* the Stage-3 query_ollama call
    stage1_results,
    stage2_results,
    stage3_result,
    title_task,        \* the asyncio task of generate_conversation_title
    arrival,           \* task indices of the running gather, in completion order
    gw_calls,          \* HTTP requests posted to the Ollama gateway
    fault,             \* what raised inside event_generator, if anything
    label_to_model,    \* Stage 2's second return value
    aggregate_rankings,
    chairman_calls,    \* the gateway calls Stage 3 has posted
    fn_name,           \* a stage function called on its own, as the tests do
    fn_args,
    fn_result,
    fn_done,
    fn_again,          \* what a repeated call returned, once it is made
    entry,             \* the entry point the behaviour exercises
    group_ADVISORS,    \* group_chat.ADVISORS, bound when the module is imported
    session,           \* the group chat session in storage, with its messages
    handlers,          \* the send_group_chat_message coroutines, by arrival
    title_calls,       \* invocations of generate_group_chat_title
    STATS,             \* monitoring.STATS
    recorded,          \* the record_request calls made so far, in order
    queries,           \* the query_ollama calls made so far
    stats,             \* what get_stats returned last
    config_pc,         \* where update_council_config stands
    config_request,    \* the advisors the config request asks for
    new_advisors,      \* update_council_config's local
    config_seen        \* what GET /api/council/config returned last

vars == <<ADVISORS, conv_exists, messages, title, is_first_message, pc, events,
          tasks1, tasks2, chairman, stage1_results, stage2_results,
          stage3_result, title_task, arrival, gw_calls, fault,
          label_to_model, aggregate_rankings, chairman_calls,
          fn_name, fn_args, fn_result, fn_done, fn_again,
          entry, group_ADVISORS, session, handlers, title_calls,
          STATS, recorded, queries, stats,
          config_pc, config_request, new_advisors, config_seen>>

fnVars == <<fn_name, fn_args, fn_result, fn_done, fn_again>>

groupVars == <<entry, group_ADVISORS, session, handlers, title_calls>>

opsVars == <<STATS, recorded, queries, stats,
             config_pc, config_request, new_advisors, config_seen>>

\* The same without the request metrics.
quietVars == <<queries, stats,
               config_pc, config_request, new_advisors, config_seen>>

\* monitoring.py 9-14: the counters when the module is loaded.
NoStats ==
    [requests_total |-> 0, requests_failed |-> 0, total_latency_ms |-> 0,
     models_usage |-> <<>>]

\* Nothing has been recorded, queried or asked of the monitoring module.
MonitoringIdle ==
    /\ STATS = NoStats
    /\ recorded = <<>>
    /\ queries = <<>>
    /\ stats = <<>>

\* No config request has been made.
ConfigIdle ==
    /\ config_pc = "idle"
    /\ config_request = <<>>
    /\ new_advisors = <<>>
    /\ config_seen = <<>>

\* No group chat session is in storage.
NoSession == [exists |-> FALSE, member_ids |-> <<>>, messages |-> <<>>,
              title |-> <<"New Group Chat">>]

GroupChatIdle ==
    /\ group_ADVISORS = <<>>
    /\ session = NoSession
    /\ handlers = <<>>
    /\ title_calls = 0

NoResult == [model |-> "", response |-> <<>>]

RequestInit ==
    /\ ADVISORS \in Rosters
    /\ conv_exists \in BOOLEAN
    /\ messages \in {<<>>, <<"user", "assistant">>}
    /\ (~conv_exists => messages = <<>>)
    /\ title = <<"New Conversation">>
    /\ is_first_message = FALSE
    /\ pc = "request"
    /\ events = <<>>
    /\ tasks1 = <<>>
    /\ tasks2 = <<>>
    /\ chairman = "idle"
    /\ stage1_results = <<>>
    /\ stage2_results = <<>>
    /\ stage3_result = NoResult
    /\ title_task = "none"
    /\ arrival = <<>>
    /\ gw_calls = 0
    /\ fault = "none"
    /\ label_to_model = <<>>
    /\ aggregate_rankings = <<>>
    /\ chairman_calls = <<>>
    /\ fn_name = "none"
    /\ fn_args = <<>>
    /\ fn_result = <<>>
    /\ fn_done = FALSE
    /\ fn_again = <<>>

Init ==
    /\ RequestInit
    /\ entry = "send_message_stream"
    /\ GroupChatIdle
    /\ MonitoringIdle
    /\ ConfigIdle

\* ----------------------------------------------------------- the metrics
\* monitoring.py 67: the entry of a model not seen before.
NoUsage == [count |-> 0, total_latency |-> 0, errors |-> 0]

\* monitoring.py 58-73.  models_usage is the dict as a function of its keys.
record_request(S, model, latency_ms, success) ==
    LET usage == IF model \in DOMAIN S.models_usage
                 THEN S.models_usage[model] ELSE NoUsage
        entry_of_model ==
            [count |-> usage.count + 1,
             total_latency |->
                usage.total_latency + (IF success THEN latency_ms ELSE 0),
             errors |-> usage.errors + (IF success THEN 0 ELSE 1)]
    IN  [requests_total |-> S.requests_total + 1,
         requests_failed |-> S.requests_failed + (IF success THEN 0 ELSE 1),
         total_latency_ms |->
            S.total_latency_ms + (IF success THEN latency_ms ELSE 0),
         models_usage |->
            [k \in DOMAIN S.models_usage \cup {model} |->
                IF k = model THEN entry_of_model ELSE S.models_usage[k]]]

\* The arguments of one record_request call.
Metric(model, latency_ms, success) ==
    [model |-> model, latency_ms |-> latency_ms, success |-> success]

\* The calls of record_request so far, each with the number of times it
\* was made.
Logged(log, metric) ==
    [x \in DOMAIN log \cup {metric} |->
        (IF x \in DOMAIN log THEN log[x] ELSE 0) + (IF x = metric THEN 1 ELSE 0)]

\* The elapsed milliseconds of a gateway call of the pipelines.
GatewayLatencies == {100}

\* ollama_client.py 99-101: the finally clause of query_ollama records the
\* call with the success flag as it stands.
RecordQuery(model, success) ==
    \E elapsed_ms \in GatewayLatencies :
       /\ STATS' = record_request(STATS, model, elapsed_ms, success)
       /\ recorded' = Logged(recorded, Metric(model, elapsed_ms, success))

\* ------------------------------------------------------------ the gateway
\* What the gateway answers a post with: a message with its content, a
\* message without content, JSON whose 'message' is not an object (a string
\* or null), or nothing within the timeout.
GatewayOutcomes == {"ok", "no content", "message not an object", "timeout"}

\* query_ollama, lines 84-98: the content of the message (none when the
\* message has none), None on any exception; message.get raises on a
\* message that is not an object.
query_ollama(outcome, text) ==
    CASE outcome = "ok" -> Content(text)
      [] outcome = "no content" -> Content(<<>>)
      [] OTHER -> None

\* query_ollama, lines 77-89: success is set once data['message'] has been
\* read, before message.get is evaluated.
Success(outcome) == outcome \in {"ok", "no content", "message not an object"}

\* Most replies of one run that have a message without content or a message
\* that is not an object.
MaxMalformed == 1

Malformed(outcome) == outcome \in {"no content", "message not an object"}

\* The calls of a fan-out, or of the chairman, that returned a text.
Textual(calls) ==
    Cardinality({ i \in DOMAIN calls :
                    /\ calls[i].state = "done"
                    /\ calls[i].response.ok
                    /\ calls[i].response.content # <<>> })

\* The group-chat calls that returned a text.
TextualGroupCalls ==
    LET RECURSIVE upto(_)
        upto(r) ==
            IF r = 0 THEN 0
            ELSE upto(r - 1)
                 + Cardinality({ c \in DOMAIN handlers[r].calls :
                                   handlers[r].calls[c].outcome = "ok" })
    IN  upto(Len(handlers))

\* The malformed replies so far: the calls recorded as successful that
\* returned no text.
MalformedReplies ==
    (STATS.requests_total - STATS.requests_failed)
      - Textual(tasks1) - Textual(tasks2) - Textual(chairman_calls)
      - TextualGroupCalls

\* The replies the gateway can still give.
OutcomesLeft ==
    { outcome \in GatewayOutcomes :
        Malformed(outcome) => MalformedReplies < MaxMalformed }

\* The prompt files on disk, by advisor name, each a list of sections, a
\* section a heading and its text: A's file has a "## System Prompt"
\* section, which names A; B has no file.
NoFile == <<"no file">>
PromptFiles ==
    [name \in AdvisorNames |->
        IF name = "A"
        THEN << <<"## Persona", "summary">>,
                <<"## System Prompt", "You are", name>> >>
        ELSE NoFile]
prompt_file(advisor) == PromptFiles[advisor.name]

\* get_system_prompt (lines 12-41): the text of the first "## System
\* Prompt" section; the empty text when the file has none, and when the
\* file cannot be opened (the exception is caught).
get_system_prompt(file) ==
    IF file = NoFile THEN <<>>
    ELSE LET hits == { k \in DOMAIN file : file[k][1] = "## System Prompt" }
         IN  IF hits = {} THEN <<>>
             ELSE Tail(file[CHOOSE k \in hits : \A l \in hits : k <= l])

\* query_ollama, lines 61-68: a system prompt that is not empty becomes the
\* first message, replacing a system message already there.
final_messages(msgs, system_prompt) ==
    IF system_prompt = <<>> THEN msgs
    ELSE IF msgs # <<>> /\ msgs[1].role = "system"
         THEN [msgs EXCEPT ![1].content = system_prompt]
         ELSE <<[role |-> "system", content |-> system_prompt]>> \o msgs

\* query_advisor, lines 118-125: the advisor's persona is loaded, the user
\* query is the one message handed to query_ollama, which posts the
\* persona in front of it.
query_advisor_messages(advisor, user_query) ==
    final_messages(<<[role |-> "user", content |-> user_query]>>,
                   get_system_prompt(prompt_file(advisor)))

\* query_advisors_parallel, line 129: one coroutine per roster advisor.
CreateTasks(roster) ==
    [i \in DOMAIN roster |->
        [advisor |-> roster[i], state |-> "created", response |-> None]]

\* A join that returns on the first completion, as asyncio.wait with
\* FIRST_COMPLETED would.
gather_first_completed(tasks) == \E i \in DOMAIN tasks : tasks[i].state = "done"

\* asyncio.gather returns once every awaitable has finished.
gather_done(tasks) == \A i \in DOMAIN tasks : tasks[i].state = "done"

\* query_advisors_parallel, lines 132-135: gather's results are in task
\* order; the dict comprehension keys them by advisor name.
query_advisors_parallel(tasks) ==
    DictFromPairs([i \in DOMAIN tasks |->
                      <<tasks[i].advisor.name, tasks[i].response>>])

\* ----------------------------------------------------- the stage functions
ResponseText(r) == IF r.ok THEN clean_response_content(r.content) ELSE <<>>

\* Stage 1: one AdvisorResponse per entry of the fan-out's dict.
stage1_collect_responses(d) ==
    [j \in DOMAIN d |-> [model |-> d[j][1], response |-> ResponseText(d[j][2])]]

\* Stage 2 labels the Stage-1 responses in order: Response A, Response B, ...
LabelMap(stage1) ==
    DictFromPairs([i \in DOMAIN stage1 |-> <<Labels[i], stage1[i].model>>])

DictHas(d, k) == \E j \in DOMAIN d : d[j][1] = k
DictGet(d, k) == d[CHOOSE j \in DOMAIN d : d[j][1] = k][2]

\* A ranking prompt that attributes every answer to its author.
RankingPromptAttributed(question, stage1) ==
    LET RECURSIVE answers(_)
        answers(i) ==
            IF i > Len(stage1) THEN <<>>
            ELSE <<Labels[i], stage1[i].model, Newline>> \o stage1[i].response
                 \o <<Newline>> \o answers(i + 1)
    IN  <<question, Newline>> \o answers(1) \o <<HeaderLine>>

\* The ranking prompt: the question, every answer under its label, and the
\* protocol the advisor is to answer in.
RankingPrompt(question, stage1) ==
    LET RECURSIVE answers(_)
        answers(i) ==
            IF i > Len(stage1) THEN <<>>
            ELSE <<Labels[i], Newline>> \o stage1[i].response
                 \o <<Newline>> \o answers(i + 1)
    IN  <<question, Newline>> \o answers(1) \o <<HeaderLine>>

\* The lines of a text, split at its newlines.
RECURSIVE SplitLines(_)
SplitLines(t) ==
    LET n == IndexOf(t, Newline, 1)
    IN  IF n = 0 THEN <<t>>
        ELSE <<SubSeq(t, 1, n - 1)>> \o SplitLines(SubSeq(t, n + 1, Len(t)))

SeqRange(s) == { s[i] : i \in DOMAIN s }
IsHeaderLine(line) == line = <<HeaderLine>>
IsRankLine(line) ==
    /\ Len(line) = 2
    /\ line[1] \in SeqRange(RankMark)
    /\ line[2] \in SeqRange(Labels)

FirstHeader(lines) ==
    LET hits == { k \in DOMAIN lines : IsHeaderLine(lines[k]) }
    IN  IF hits = {} THEN 0 ELSE CHOOSE k \in hits : \A l \in hits : k <= l

\* A parser that collects every "<rank>. <label>" line after the header,
\* wherever it stands.
parse_ranking_findall(t) ==
    LET lines == SplitLines(t)
        h == FirstHeader(lines)
        RECURSIVE collect(_)
        collect(k) ==
            IF k > Len(lines) THEN <<>>
            ELSE IF IsRankLine(lines[k]) THEN <<lines[k][2]>> \o collect(k + 1)
            ELSE collect(k + 1)
    IN  IF h = 0 THEN <<>> ELSE collect(h + 1)

\* parsedRanking: the labels of the lines "<rank>. <label>" read greedily
\* after the header, up to the first line of another form.
parse_ranking_from_text(t) ==
    LET lines == SplitLines(t)
        h == FirstHeader(lines)
        RECURSIVE read(_)
        read(k) ==
            IF k > Len(lines) THEN <<>>
            ELSE IF IsRankLine(lines[k]) THEN <<lines[k][2]>> \o read(k + 1)
            ELSE <<>>
    IN  IF h = 0 THEN <<>> ELSE read(h + 1)

\* Stage 2: one RankingEntry per entry of the fan-out's dict.
stage2_collect_rankings(d) ==
    [j \in DOMAIN d |->
        [model |-> d[j][1],
         ranking |-> ResponseText(d[j][2]),
         parsed_ranking |-> parse_ranking_from_text(ResponseText(d[j][2]))]]

\* ----------------------------------------------------------- RankAggregator
\* An average is an exact fraction <<numerator, denominator>> in lowest
\* terms: 1.5 is <<3, 2>>.
RECURSIVE GCD(_, _)
GCD(a, b) == IF b = 0 THEN a ELSE GCD(b, a % b)
Rat(n, d) == <<n \div GCD(n, d), d \div GCD(n, d)>>
RatLess(a, b) == a[1] * b[2] < b[1] * a[2]

RECURSIVE Sum(_)
Sum(s) == IF s = <<>> THEN 0 ELSE s[1] + Sum(Tail(s))

\* The best position a model reached, in place of its mean position.
BestPosition(positions) ==
    Rat(CHOOSE p \in SeqRange(positions) : \A q \in SeqRange(positions) : p <= q, 1)

Mean(positions) == Rat(Sum(positions), Len(positions))

\* A label resolves to at most one model.
Resolve(map, label) ==
    IF DictHas(map, label) THEN <<DictGet(map, label)>> ELSE <<>>

\* Votes in which an advisor without a ranking puts every model last.
VotesOfRankingPenalising(parsed, map) ==
    LET RECURSIVE from(_)
        from(k) ==
            IF k > Len(parsed) THEN <<>>
            ELSE [i \in DOMAIN Resolve(map, parsed[k]) |->
                     <<Resolve(map, parsed[k])[i], k>>] \o from(k + 1)
    IN  IF parsed = <<>> THEN [i \in DOMAIN map |-> <<map[i][2], Len(map)>>]
        ELSE from(1)

\* The votes of one parsed ranking: <<model, position>> for every label of
\* the list that resolves, the position being the label's 1-based index.
VotesOfRanking(parsed, map) ==
    LET RECURSIVE from(_)
        from(k) ==
            IF k > Len(parsed) THEN <<>>
            ELSE [i \in DOMAIN Resolve(map, parsed[k]) |->
                     <<Resolve(map, parsed[k])[i], k>>] \o from(k + 1)
    IN  from(1)

RECURSIVE Votes(_, _)
Votes(results, map) ==
    IF results = <<>> THEN <<>>
    ELSE VotesOfRanking(results[1].parsed_ranking, map) \o Votes(Tail(results), map)

PositionsOf(model, votes) ==
    LET mine == SelectSeq(votes, LAMBDA v : v[1] = model)
    IN  [k \in DOMAIN mine |-> mine[k][2]]

\* The models of the label map, in label order.
MappedModels(map) ==
    LET firsts == SelectSeq([j \in DOMAIN map |-> j],
                            LAMBDA j : \A l \in 1..(j - 1) : map[l][2] # map[j][2])
    IN  [k \in DOMAIN firsts |-> map[firsts[k]][2]]

\* An aggregation that scores a model nobody ranked one place behind the
\* last.
AggregateEntriesWithAbsent(results, map) ==
    LET v == Votes(results, map)
        ms == MappedModels(map)
    IN  [k \in DOMAIN ms |->
            IF PositionsOf(ms[k], v) = <<>>
            THEN [model |-> ms[k], average_rank |-> Rat(Len(map) + 1, 1), votes |-> 0]
            ELSE [model |-> ms[k],
                  average_rank |-> Mean(PositionsOf(ms[k], v)),
                  votes |-> Len(PositionsOf(ms[k], v))]]

\* An aggregation that takes a label it cannot resolve for a model name.
AggregateEntriesKeepingUnknown(results, map) ==
    LET RECURSIVE names(_)
        names(rs) ==
            IF rs = <<>> THEN <<>>
            ELSE [k \in DOMAIN rs[1].parsed_ranking |->
                     IF DictHas(map, rs[1].parsed_ranking[k])
                     THEN DictGet(map, rs[1].parsed_ranking[k])
                     ELSE rs[1].parsed_ranking[k]] \o names(Tail(rs))
        RECURSIVE positions(_)
        positions(rs) ==
            IF rs = <<>> THEN <<>>
            ELSE [k \in DOMAIN rs[1].parsed_ranking |-> k] \o positions(Tail(rs))
        ns == names(results)
        ps == positions(results)
        v == [k \in DOMAIN ns |-> <<ns[k], ps[k]>>]
        all == [k \in 1..(Len(map) + Len(ns)) |->
                   IF k <= Len(map) THEN map[k][2] ELSE ns[k - Len(map)]]
        firsts == SelectSeq([j \in DOMAIN all |-> j],
                            LAMBDA j : /\ \A l \in 1..(j - 1) : all[l] # all[j]
                                       /\ PositionsOf(all[j], v) # <<>>)
    IN  [k \in DOMAIN firsts |->
            [model |-> all[firsts[k]],
             average_rank |-> Mean(PositionsOf(all[firsts[k]], v)),
             votes |-> Len(PositionsOf(all[firsts[k]], v))]]

\* One entry per model of the label map that collected a position.
AggregateEntries(results, map) ==
    LET v == Votes(results, map)
        ms == SelectSeq(MappedModels(map), LAMBDA mdl : PositionsOf(mdl, v) # <<>>)
    IN  [k \in DOMAIN ms |->
            [model |-> ms[k],
             average_rank |-> Mean(PositionsOf(ms[k], v)),
             votes |-> Len(PositionsOf(ms[k], v))]]

\* A sort that places an entry before the entries of equal average.
RECURSIVE SortByAverageTiesReversed(_)
SortByAverageTiesReversed(entries) ==
    LET RECURSIVE insert(_, _)
        insert(s, e) ==
            IF s = <<>> THEN <<e>>
            ELSE IF ~RatLess(s[1].average_rank, e.average_rank) THEN <<e>> \o s
            ELSE <<s[1]>> \o insert(Tail(s), e)
    IN  IF entries = <<>> THEN <<>>
        ELSE insert(SortByAverageTiesReversed(SubSeq(entries, 1, Len(entries) - 1)),
                    entries[Len(entries)])

\* Stable sort, ascending by average rank.
RECURSIVE SortByAverage(_)
SortByAverage(entries) ==
    LET RECURSIVE insert(_, _)
        insert(s, e) ==
            IF s = <<>> THEN <<e>>
            ELSE IF RatLess(e.average_rank, s[1].average_rank) THEN <<e>> \o s
            ELSE <<s[1]>> \o insert(Tail(s), e)
    IN  IF entries = <<>> THEN <<>>
        ELSE insert(SortByAverage(SubSeq(entries, 1, Len(entries) - 1)),
                    entries[Len(entries)])

calculate_aggregate_rankings(results, map) ==
    SortByAverage(AggregateEntries(results, map))

\* Stage 3: the chairman's answer, empty when the call failed.
stage3_synthesize_final(r) ==
    [model |-> CHAIRMAN_MODEL, response |-> ResponseText(r)]

\* ------------------------------------------------------- event_generator
\* except Exception: yield the error event (main.py 329-331).
OnException(ev) == Append(ev, "error")

\* An except clause inside the step: the error event is yielded and the
\* generator carries on from where it stood.
RaiseAndContinue(kind) ==
    /\ events' = OnException(events)
    /\ pc' = pc
    /\ fault' = kind

Raise(kind) ==
    /\ events' = OnException(events)
    /\ pc' = "Errored"
    /\ fault' = kind

\* send_message_stream before the generator runs (main.py 277-283).
SendMessageStream ==
    /\ pc = "request"
    /\ IF conv_exists
       THEN /\ is_first_message' = (Len(messages) = 0)
            /\ pc' = "NotStarted"
       ELSE /\ pc' = "rejected"
            /\ UNCHANGED is_first_message
    /\ UNCHANGED <<opsVars, groupVars, fnVars, label_to_model, aggregate_rankings, chairman_calls,
                   ADVISORS, conv_exists, messages, title, events, tasks1,
                   tasks2, chairman, stage1_results, stage2_results,
                   stage3_result, title_task, gw_calls, fault, arrival>>

\* storage.py 92-123: a message row is added under the conversation's id;
\* when the conversation has been deleted the row belongs to no
\* conversation, and the messages of the conversation stay none.
add_message(role) ==
    IF conv_exists THEN Append(messages, role) ELSE messages

\* main.py 287-296: store the user message, start the title task, yield
\* stage1_start.
AddUserMessage ==
    /\ pc = "NotStarted"
    /\ \E db_ok \in BOOLEAN :
          IF db_ok
          THEN /\ messages' = add_message("user")
               /\ title_task' = IF is_first_message THEN "running" ELSE "none"
               /\ events' = Append(events, "stage1_start")
               /\ pc' = "s1_started"
               /\ UNCHANGED fault
          ELSE /\ Raise("storage")
               /\ UNCHANGED <<messages, title_task>>
    /\ UNCHANGED <<opsVars, groupVars, fnVars, label_to_model, aggregate_rankings, chairman_calls,
                   ADVISORS, conv_exists, title, is_first_message, tasks1,
                   tasks2, chairman, stage1_results, stage2_results,
                   stage3_result, gw_calls, arrival>>

\* main.py 297 into stage1_collect_responses and the fan-out's creation:
\* one task per entry of config.ADVISORS (ollama_client.py 129), none when
\* the roster is empty; gather then returns at once with no result.
Stage1Fanout ==
    /\ pc = "s1_started"
    /\ tasks1' = CreateTasks(ADVISORS)
    /\ pc' = "s1_gather"
    /\ arrival' = <<>>
    /\ UNCHANGED <<opsVars, groupVars, fnVars, label_to_model, aggregate_rankings, chairman_calls,
                   ADVISORS, conv_exists, messages, title, is_first_message,
                   tasks2, chairman, stage1_results, stage2_results,
                   stage3_result, title_task, gw_calls, events, fault>>

\* query_advisor up to the HTTP post of query_ollama (lines 117-83).
StartCall(tasks, i) ==
    [tasks EXCEPT ![i].state = "inflight"]

\* query_ollama's return (lines 84-101) and query_advisor's (line 126).
FinishCall(tasks, i, outcome, text) ==
    [tasks EXCEPT ![i].state = "done",
                  ![i].response = query_ollama(outcome, text)]

QueryStart1(i) ==
    /\ pc \in {"s1_gather", "sync_gather1"}
    /\ tasks1[i].state = "created"
    /\ tasks1' = StartCall(tasks1, i)
    /\ gw_calls' = gw_calls + 1
    /\ UNCHANGED <<opsVars, groupVars, fnVars, label_to_model, aggregate_rankings, chairman_calls,
                   ADVISORS, conv_exists, messages, title, is_first_message,
                   pc, events, tasks2, chairman, stage1_results,
                   stage2_results, stage3_result, title_task, fault, arrival>>

\* A Stage-1 call that announces its own completion on the stream.
QueryFinish1Announced(i) ==
    /\ tasks1[i].state = "inflight"
    /\ \E outcome \in OutcomesLeft :
          /\ tasks1' = FinishCall(tasks1, i, outcome, RawAnswer(i))
          /\ RecordQuery(tasks1[i].advisor.model, Success(outcome))
    /\ arrival' = Append(arrival, i)
    /\ events' = Append(events, "advisor_complete")
    /\ UNCHANGED <<quietVars, groupVars, fnVars, label_to_model, aggregate_rankings, chairman_calls,
                   ADVISORS, conv_exists, messages, title, is_first_message,
                   pc, tasks2, chairman, stage1_results,
                   stage2_results, stage3_result, title_task, gw_calls, fault>>

QueryFinish1(i) ==
    /\ tasks1[i].state = "inflight"
    /\ \E outcome \in OutcomesLeft :
          /\ tasks1' = FinishCall(tasks1, i, outcome, RawAnswer(i))
          /\ RecordQuery(tasks1[i].advisor.model, Success(outcome))
    /\ arrival' = Append(arrival, i)
    /\ UNCHANGED <<quietVars, groupVars, fnVars, label_to_model, aggregate_rankings, chairman_calls,
                   ADVISORS, conv_exists, messages, title, is_first_message,
                   pc, events, tasks2, chairman, stage1_results,
                   stage2_results, stage3_result, title_task, gw_calls, fault>>

\* Stage 1 returns but stage1_complete is not yielded.
Stage1JoinSilent ==
    /\ pc = "s1_gather"
    /\ gather_done(tasks1)
    /\ stage1_results' = stage1_collect_responses(query_advisors_parallel(tasks1))
    /\ pc' = "Stage1Done"
    /\ UNCHANGED <<opsVars, groupVars, fnVars, label_to_model, aggregate_rankings, chairman_calls,
                   ADVISORS, conv_exists, messages, title, is_first_message,
                   events, tasks1, tasks2, chairman, stage2_results,
                   stage3_result, title_task, arrival, gw_calls, fault>>

\* gather returns; Stage 1 builds its list; yield stage1_complete.
Stage1Join ==
    /\ pc = "s1_gather"
    /\ gather_done(tasks1)
    /\ stage1_results' = stage1_collect_responses(query_advisors_parallel(tasks1))
    /\ events' = Append(events, "stage1_complete")
    /\ pc' = "Stage1Done"
    /\ UNCHANGED <<opsVars, groupVars, fnVars, label_to_model, aggregate_rankings, chairman_calls,
                   ADVISORS, conv_exists, messages, title, is_first_message,
                   tasks1, tasks2, chairman, stage2_results, stage3_result,
                   title_task, gw_calls, fault, arrival>>

\* A storage write of the Stage-1 list placed before stage2_start: it can
\* raise between the stages.
Stage2StartPersisting ==
    /\ pc = "Stage1Done"
    /\ \E db_ok \in BOOLEAN :
          IF db_ok
          THEN /\ events' = Append(events, "stage2_start")
               /\ pc' = "s2_started"
               /\ UNCHANGED fault
          ELSE /\ events' = Append(events, "error")
               /\ pc' = "Errored"
               /\ fault' = "storage"
    /\ arrival' = <<>>
    /\ UNCHANGED <<opsVars, groupVars, fnVars, label_to_model, aggregate_rankings, chairman_calls,
                   ADVISORS, conv_exists, messages, title, is_first_message,
                   tasks1, tasks2, chairman, stage1_results, stage2_results,
                   stage3_result, title_task, gw_calls>>

\* main.py 301: yield stage2_start.
Stage2Start ==
    /\ pc = "Stage1Done"
    /\ events' = Append(events, "stage2_start")
    /\ pc' = "s2_started"
    /\ arrival' = <<>>
    /\ UNCHANGED <<opsVars, groupVars, fnVars, label_to_model, aggregate_rankings, chairman_calls,
                   ADVISORS, conv_exists, messages, title, is_first_message,
                   tasks1, tasks2, chairman, stage1_results, stage2_results,
                   stage3_result, title_task, gw_calls, fault>>

\* main.py 302 into stage2_collect_rankings: the ranking prompt is built
\* and the second fan-out created over config.ADVISORS.
Stage2Fanout ==
    /\ pc = "s2_started"
    /\ tasks2' = CreateTasks(ADVISORS)
    /\ pc' = "s2_gather"
    /\ arrival' = <<>>
    /\ UNCHANGED <<opsVars, groupVars, fnVars, label_to_model, aggregate_rankings, chairman_calls,
                   ADVISORS, conv_exists, messages, title, is_first_message,
                   events, tasks1, chairman, stage1_results, stage2_results,
                   stage3_result, title_task, gw_calls, fault>>

QueryStart2(i) ==
    /\ pc \in {"s2_gather", "sync_gather2"}
    /\ tasks2[i].state = "created"
    /\ tasks2' = StartCall(tasks2, i)
    /\ gw_calls' = gw_calls + 1
    /\ UNCHANGED <<opsVars, groupVars, fnVars, label_to_model, aggregate_rankings, chairman_calls,
                   ADVISORS, conv_exists, messages, title, is_first_message,
                   pc, events, tasks1, chairman, stage1_results,
                   stage2_results, stage3_result, title_task, fault, arrival>>

QueryFinish2(i) ==
    /\ tasks2[i].state = "inflight"
    /\ \E outcome \in OutcomesLeft :
          /\ tasks2' = FinishCall(tasks2, i, outcome, RawRanking(i))
          /\ RecordQuery(tasks2[i].advisor.model, Success(outcome))
    /\ arrival' = Append(arrival, i)
    /\ UNCHANGED <<quietVars, groupVars, fnVars, label_to_model, aggregate_rankings, chairman_calls,
                   ADVISORS, conv_exists, messages, title, is_first_message,
                   pc, events, tasks1, chairman, stage1_results,
                   stage2_results, stage3_result, title_task, gw_calls, fault>>

\* gather returns; Stage 2 builds its list and the label map; the
\* aggregate is computed (main.py 303); yield stage2_complete.
Stage2Join ==
    /\ pc = "s2_gather"
    /\ gather_done(tasks2)
    /\ stage2_results' = stage2_collect_rankings(query_advisors_parallel(tasks2))
    /\ label_to_model' = LabelMap(stage1_results)
    /\ aggregate_rankings' = calculate_aggregate_rankings(stage2_results', label_to_model')
    /\ events' = Append(events, "stage2_complete")
    /\ pc' = "Stage2Done"
    /\ UNCHANGED <<opsVars, groupVars, fnVars, chairman_calls,
                   ADVISORS, conv_exists, messages, title, is_first_message,
                   tasks1, tasks2, chairman, stage1_results, stage3_result,
                   title_task, gw_calls, fault, arrival>>

\* main.py 307: yield stage3_start.
Stage3Start ==
    /\ pc = "Stage2Done"
    /\ events' = Append(events, "stage3_start")
    /\ pc' = "s3_started"
    /\ arrival' = <<>>
    /\ UNCHANGED <<opsVars, groupVars, fnVars, label_to_model, aggregate_rankings, chairman_calls,
                   ADVISORS, conv_exists, messages, title, is_first_message,
                   tasks1, tasks2, chairman, stage1_results, stage2_results,
                   stage3_result, title_task, gw_calls, fault>>

\* Stage 3 posts its request through query_ollama to the chairman model.
ChairmanRequest == [model |-> CHAIRMAN_MODEL, state |-> "inflight", response |-> None]

\* main.py 308 into stage3_synthesize_final: the chairman call is posted.
ChairmanCall ==
    /\ pc = "s3_started"
    /\ chairman' = "inflight"
    /\ chairman_calls' = Append(chairman_calls, ChairmanRequest)
    /\ gw_calls' = gw_calls + 1
    /\ pc' = "s3_call"
    /\ UNCHANGED <<opsVars, groupVars, fnVars, label_to_model, aggregate_rankings,
                   ADVISORS, conv_exists, messages, title, is_first_message,
                   events, tasks1, tasks2, stage1_results, stage2_results,
                   stage3_result, title_task, fault, arrival>>

\* A Stage 3 that posts the request again when the chairman call failed.
ChairmanFinishRetrying ==
    /\ pc = "s3_call"
    /\ chairman = "inflight"
    /\ \E outcome \in OutcomesLeft :
          /\ chairman_calls' = FinishCall(chairman_calls, Len(chairman_calls),
                                          outcome, SynthesisText)
          /\ RecordQuery(CHAIRMAN_MODEL, Success(outcome))
          /\ IF query_ollama(outcome, SynthesisText).ok
                \/ Len(chairman_calls) > 1
             THEN /\ stage3_result' =
                        stage3_synthesize_final(query_ollama(outcome, SynthesisText))
                  /\ chairman' = "done"
                  /\ events' = Append(events, "stage3_complete")
                  /\ pc' = "Stage3Done"
             ELSE /\ chairman' = "idle"
                  /\ pc' = "s3_started"
                  /\ UNCHANGED <<stage3_result, events>>
    /\ UNCHANGED <<quietVars, groupVars, fnVars, label_to_model, aggregate_rankings,
                   ADVISORS, conv_exists, messages, title, is_first_message,
                   tasks1, tasks2, stage1_results, stage2_results, title_task,
                   gw_calls, fault, arrival>>

\* A Stage 3 that lets the failure of the chairman call propagate.
ChairmanFinishRaising ==
    /\ pc = "s3_call"
    /\ chairman = "inflight"
    /\ \E outcome \in OutcomesLeft :
          /\ chairman_calls' = FinishCall(chairman_calls, Len(chairman_calls),
                                          outcome, SynthesisText)
          /\ RecordQuery(CHAIRMAN_MODEL, Success(outcome))
          /\ IF query_ollama(outcome, SynthesisText).ok
             THEN /\ stage3_result' =
                        stage3_synthesize_final(query_ollama(outcome, SynthesisText))
                  /\ events' = Append(events, "stage3_complete")
                  /\ pc' = "Stage3Done"
                  /\ UNCHANGED fault
             ELSE /\ Raise("gateway")
                  /\ UNCHANGED stage3_result
    /\ chairman' = "done"
    /\ UNCHANGED <<quietVars, groupVars, fnVars, label_to_model, aggregate_rankings,
                   ADVISORS, conv_exists, messages, title, is_first_message,
                   tasks1, tasks2, stage1_results, stage2_results, title_task,
                   gw_calls, arrival>>

\* The chairman call returns; yield stage3_complete (main.py 309).
ChairmanFinish ==
    /\ pc = "s3_call"
    /\ chairman = "inflight"
    /\ \E outcome \in OutcomesLeft :
          /\ chairman_calls' = FinishCall(chairman_calls, Len(chairman_calls),
                                          outcome, SynthesisText)
          /\ RecordQuery(CHAIRMAN_MODEL, Success(outcome))
          /\ stage3_result' =
                stage3_synthesize_final(query_ollama(outcome, SynthesisText))
    /\ chairman' = "done"
    /\ events' = Append(events, "stage3_complete")
    /\ pc' = "Stage3Done"
    /\ UNCHANGED <<quietVars, groupVars, fnVars, label_to_model, aggregate_rankings,
                   ADVISORS, conv_exists, messages, title, is_first_message,
                   tasks1, tasks2, stage1_results, stage2_results, title_task,
                   gw_calls, fault, arrival>>

\* storage.py 126-136: the title is written when the conversation is found,
\* and nothing is written when it is not.
update_conversation_title(text) ==
    IF conv_exists THEN text ELSE title

\* generate_conversation_title, running as its own task since line 293:
\* it asks a model for the title, one gateway call, and returns or raises.
TitleFinish ==
    /\ title_task = "running"
    /\ \E r \in {"done", "failed"} : title_task' = r
    /\ gw_calls' = gw_calls + 1
    /\ UNCHANGED <<opsVars, groupVars, fnVars, label_to_model, aggregate_rankings, chairman_calls,
                   ADVISORS, conv_exists, messages, title, is_first_message,
                   pc, events, tasks1, tasks2, chairman, stage1_results,
                   stage2_results, stage3_result, fault, arrival>>

\* main.py 312-315: join the title task, store the title, yield
\* title_complete.
AwaitTitle ==
    /\ pc = "Stage3Done"
    /\ title_task \in {"done", "failed"}
    /\ IF title_task = "failed"
       THEN /\ Raise("title")
            /\ UNCHANGED title
       ELSE \E db_ok \in BOOLEAN :
               IF db_ok
               THEN /\ title' = update_conversation_title(TitleText)
                    /\ events' = Append(events, "title_complete")
                    /\ pc' = "TitleDone"
                    /\ UNCHANGED fault
               ELSE /\ Raise("storage")
                    /\ UNCHANGED title
    /\ UNCHANGED <<opsVars, groupVars, fnVars, label_to_model, aggregate_rankings, chairman_calls,
                   ADVISORS, conv_exists, messages, is_first_message, tasks1,
                   tasks2, chairman, stage1_results, stage2_results,
                   stage3_result, title_task, gw_calls, arrival>>

\* A save whose failure is noticed only after the message was written.
SaveAssistantMessageThenRaise ==
    /\ \/ pc = "TitleDone"
       \/ pc = "Stage3Done" /\ title_task = "none"
    /\ messages' = add_message("assistant")
    /\ \E db_ok \in BOOLEAN :
          IF db_ok
          THEN /\ events' = Append(events, "complete")
               /\ pc' = "Complete"
               /\ UNCHANGED fault
          ELSE Raise("storage")
    /\ UNCHANGED <<opsVars, groupVars, fnVars, label_to_model, aggregate_rankings,
                   chairman_calls, ADVISORS, conv_exists, title,
                   is_first_message, tasks1, tasks2, chairman, stage1_results,
                   stage2_results, stage3_result, title_task, gw_calls,
                   arrival>>

\* main.py 318-327: store the assistant message, yield complete.
SaveAssistantMessage ==
    /\ \/ pc = "TitleDone"
       \/ pc = "Stage3Done" /\ title_task = "none"
    /\ \E db_ok \in BOOLEAN :
          IF db_ok
          THEN /\ messages' = add_message("assistant")
               /\ events' = Append(events, "complete")
               /\ pc' = "Complete"
               /\ UNCHANGED fault
          ELSE /\ Raise("storage")
               /\ UNCHANGED messages
    /\ UNCHANGED <<opsVars, groupVars, fnVars, label_to_model, aggregate_rankings, chairman_calls,
                   ADVISORS, conv_exists, title, is_first_message, tasks1,
                   tasks2, chairman, stage1_results, stage2_results,
                   stage3_result, title_task, gw_calls, arrival>>

\* DELETE /api/conversations/{id} (main.py 217-223, storage.py 139-148) from
\* another client: the conversation goes, and by the cascade of models.py 14
\* its messages with it.  A conversation that is not in storage is answered
\* with not-found and nothing changes.
DeleteConversation ==
    /\ conv_exists
    /\ conv_exists' = FALSE
    /\ messages' = <<>>
    /\ title' = <<"New Conversation">>
    /\ UNCHANGED <<opsVars, groupVars, fnVars, label_to_model, aggregate_rankings,
                   chairman_calls, ADVISORS, is_first_message, pc, events,
                   tasks1, tasks2, chairman, stage1_results, stage2_results,
                   stage3_result, title_task, gw_calls, fault, arrival>>

Next ==
    \/ SendMessageStream
    \/ DeleteConversation
    \/ AddUserMessage
    \/ Stage1Fanout
    \/ \E i \in 1..MaxAdvisors : i \in DOMAIN tasks1 /\ QueryStart1(i)
    \/ \E i \in 1..MaxAdvisors : i \in DOMAIN tasks1 /\ QueryFinish1(i)
    \/ Stage1Join
    \/ Stage2Start
    \/ Stage2Fanout
    \/ \E i \in 1..MaxAdvisors : i \in DOMAIN tasks2 /\ QueryStart2(i)
    \/ \E i \in 1..MaxAdvisors : i \in DOMAIN tasks2 /\ QueryFinish2(i)
    \/ Stage2Join
    \/ Stage3Start
    \/ ChairmanCall
    \/ ChairmanFinish
    \/ TitleFinish
    \/ AwaitTitle
    \/ SaveAssistantMessage

Spec == Init /\ [][Next]_vars

\* ------------------------------------------- the stage functions on their own
\* tests/test_council.py calls the stage functions directly, with inputs of
\* its own making.  FunctionSpec does the same over bounded input sets.
MaxLines == 4
MaxJudges == 2
MaxRankLen == 2

SeqsUpTo(S, n) == UNION { [1..k -> S] : k \in 0..n }

RECURSIVE JoinLines(_)
JoinLines(lines) ==
    IF lines = <<>> THEN <<>>
    ELSE IF Len(lines) = 1 THEN lines[1]
    ELSE lines[1] \o <<Newline>> \o JoinLines(Tail(lines))

\* Lines an advisor may write: the header, ranked labels, prose, a blank.
LineKinds ==
    { <<HeaderLine>>, <<"1.", "Response A">>, <<"1.", "Response B">>,
      <<"2.", "Response A">>, <<"2.", "Response B">>, <<"prose">>, <<>> }
RankingLines == SeqsUpTo(LineKinds, MaxLines)

\* The models of test_calculate_aggregate_rankings' label map, and a third.
TestModels == <<"Model A", "Model B", "Model C">>
LabelMapInputs ==
    { LabelMap([i \in 1..n |-> [model |-> TestModels[i],
                                 response |-> <<AnswerWord[i]>>]]) :
        n \in 1..Len(TestModels) }

\* Parsed rankings over the labels of the largest map: in the smaller maps
\* some of these labels do not resolve.
RankedLabels == { Labels[i] : i \in DOMAIN TestModels }
ParsedRankings == SeqsUpTo(RankedLabels, MaxRankLen)
RenderRanking(parsed) ==
    JoinLines(<< <<HeaderLine>> >> \o
              [k \in DOMAIN parsed |-> <<RankMark[k], parsed[k]>>])
Stage2Inputs ==
    { [j \in DOMAIN rs |-> [model |-> ModelName[j],
                             ranking |-> RenderRanking(rs[j]),
                             parsed_ranking |-> rs[j]]] :
        rs \in SeqsUpTo(ParsedRankings, MaxJudges) }

\* Stage-1 lists as Stage 2 receives them, and a question.
Questions == {"question1", "question2"}
Stage1Inputs ==
    { s \in SeqsUpTo([model : AdvisorNames,
                      response : {<<AnswerWord[1]>>, <<AnswerWord[2]>>}],
                     MaxJudges) : s # <<>> }
Stage2Calls == [question : Questions, stage1 : Stage1Inputs]

\* A RankingEntry whose text could not be parsed.
EmptyRankingEntry == [model |-> "silent", ranking |-> <<"prose">>, parsed_ranking |-> <<>>]
InsertAt(s, at, e) == SubSeq(s, 1, at) \o <<e>> \o SubSeq(s, at + 1, Len(s))
FrameInputs ==
    { a \in [stage2_results : Stage2Inputs, label_to_model : LabelMapInputs,
              at : 0..MaxJudges] : a.at <= Len(a.stage2_results) }

\* Raw texts: markers, halves of markers, words and newlines.
MaxTextLen == 5
TextTokens == {ThinkOpen, ThinkClose, OpenHalf, CloseHalf, EndHalf, Newline, "a", "b"}
RawTexts == { t \in SeqsUpTo(TextTokens, MaxTextLen) : Fuse(t) = t }

PipelineQuiet ==
    /\ conv_exists = FALSE
    /\ messages = <<>>
    /\ title = <<"New Conversation">>
    /\ is_first_message = FALSE
    /\ pc = "request"
    /\ events = <<>>
    /\ tasks1 = <<>>
    /\ tasks2 = <<>>
    /\ chairman = "idle"
    /\ stage1_results = <<>>
    /\ stage2_results = <<>>
    /\ stage3_result = NoResult
    /\ title_task = "none"
    /\ arrival = <<>>
    /\ gw_calls = 0
    /\ fault = "none"
    /\ label_to_model = <<>>
    /\ aggregate_rankings = <<>>
    /\ chairman_calls = <<>>

PipelineIdle ==
    /\ ADVISORS = <<>>
    /\ PipelineQuiet

pipelineVars ==
    <<ADVISORS, conv_exists, messages, title, is_first_message, pc, events,
      tasks1, tasks2, chairman, stage1_results, stage2_results, stage3_result,
      title_task, arrival, gw_calls, fault, label_to_model,
      aggregate_rankings, chairman_calls>>

FunctionInit ==
    /\ PipelineQuiet
    /\ entry = "stage function"
    /\ GroupChatIdle
    /\ MonitoringIdle
    /\ ConfigIdle
    /\ \/ /\ fn_name = "parse_ranking_from_text"
          /\ fn_args \in RankingLines
       \/ /\ fn_name = "calculate_aggregate_rankings"
          /\ fn_args \in [stage2_results : Stage2Inputs,
                           label_to_model : LabelMapInputs]
       \/ /\ fn_name = "stage2_collect_rankings"
          /\ fn_args \in [first : Stage2Calls, second : Stage2Calls]
       \/ /\ fn_name = "clean_response_content"
          /\ fn_args \in RawTexts
       \/ /\ fn_name = "calculate_aggregate_rankings, one more entry"
          /\ fn_args \in FrameInputs
    /\ ADVISORS \in IF fn_name = "stage2_collect_rankings"
                     THEN Rosters ELSE {<<>>}
    /\ fn_result = <<>>
    /\ fn_done = FALSE
    /\ fn_again = <<>>

\* The messages one Stage-2 invocation posts: the ranking prompt goes to
\* query_advisors_parallel, which sends it to every advisor of
\* config.ADVISORS behind that advisor's persona.
Stage2Messages(call) ==
    [i \in DOMAIN ADVISORS |->
        query_advisor_messages(ADVISORS[i],
                               RankingPrompt(call.question, call.stage1))]

\* The advisor's output is the text made of the lines.
CallParseRanking ==
    /\ fn_name = "parse_ranking_from_text"
    /\ ~fn_done
    /\ fn_result' = parse_ranking_from_text(JoinLines(fn_args))
    /\ fn_done' = TRUE
    /\ UNCHANGED <<opsVars, groupVars, pipelineVars, fn_name, fn_args, fn_again>>

CallAggregate ==
    /\ fn_name = "calculate_aggregate_rankings"
    /\ ~fn_done
    /\ fn_result' = calculate_aggregate_rankings(fn_args.stage2_results,
                                                 fn_args.label_to_model)
    /\ fn_done' = TRUE
    /\ UNCHANGED <<opsVars, groupVars, pipelineVars, fn_name, fn_args, fn_again>>

\* The aggregate of the rankings, and of the rankings with an unparsed
\* entry added at some place.
CallAggregateWithEmptyEntry ==
    /\ fn_name = "calculate_aggregate_rankings, one more entry"
    /\ ~fn_done
    /\ fn_result' =
          <<calculate_aggregate_rankings(fn_args.stage2_results, fn_args.label_to_model),
            calculate_aggregate_rankings(
                InsertAt(fn_args.stage2_results, fn_args.at, EmptyRankingEntry),
                fn_args.label_to_model)>>
    /\ fn_done' = TRUE
    /\ UNCHANGED <<opsVars, groupVars, pipelineVars, fn_name, fn_args, fn_again>>

\* Two Stage-2 invocations over the same roster, side by side.
CallStage2Twice ==
    /\ fn_name = "stage2_collect_rankings"
    /\ ~fn_done
    /\ fn_result' = <<Stage2Messages(fn_args.first), Stage2Messages(fn_args.second)>>
    /\ fn_done' = TRUE
    /\ UNCHANGED <<opsVars, groupVars, pipelineVars, fn_name, fn_args, fn_again>>

CallClean ==
    /\ fn_name = "clean_response_content"
    /\ ~fn_done
    /\ fn_result' = clean_response_content(fn_args)
    /\ fn_done' = TRUE
    /\ UNCHANGED <<opsVars, groupVars, pipelineVars, fn_name, fn_args, fn_again>>

\* clean(clean(x))
CallCleanAgain ==
    /\ fn_name = "clean_response_content"
    /\ fn_done
    /\ fn_again = <<>>
    /\ fn_again' = <<clean_response_content(fn_result)>>
    /\ UNCHANGED <<opsVars, groupVars, pipelineVars, fn_name, fn_args, fn_result, fn_done>>

FunctionNext ==
    \/ CallClean
    \/ CallCleanAgain
    \/ CallParseRanking
    \/ CallAggregate
    \/ CallAggregateWithEmptyEntry
    \/ CallStage2Twice

FunctionSpec == FunctionInit /\ [][FunctionNext]_vars

\* ------------------------------------------- the non-streaming entry points
MaxRequests == 2
MaxRoster == 3
MaxMembers == 2

\* The roster of tests/test_group_chat.py.
AdvisorIds == <<"advisor_a", "advisor_b", "advisor_c">>
GroupNames == <<"Advisor A", "Advisor B", "Advisor C">>
GroupModels == <<"model-a", "model-b", "model-c">>
TestAdvisor(i) ==
    [id |-> AdvisorIds[i], name |-> GroupNames[i], model |-> GroupModels[i]]
TestRoster == [i \in DOMAIN AdvisorIds |-> TestAdvisor(i)]

Injective(s) == \A i, j \in DOMAIN s : s[i] = s[j] => i = j

\* Rosters group_chat.ADVISORS can be bound to: the test advisors, in any
\* order, any of them left out.
GroupRosters ==
    { [k \in DOMAIN s |-> TestAdvisor(s[k])] :
        s \in { t \in SeqsUpTo(DOMAIN AdvisorIds, MaxRoster) : Injective(t) } }

\* member_ids: any list of ids, an id of no roster advisor included.
MemberIds == SeqRange(AdvisorIds) \cup {"nobody"}
MemberLists == SeqsUpTo(MemberIds, MaxMembers)

\* The member lists of the sessions the endpoint is exercised on: one
\* roster advisor, or an id of no roster advisor.  Sessions of several
\* members are exercised on run_group_chat itself.
\* create_group_chat_session rejects the empty list (main.py 355-356).
SessionMembers == {<<"advisor_a">>, <<"nobody">>}

\* The content of the r-th request.
QuestionWord == <<"Question 1", "Question 2", "Question 3", "Question 4",
                  "Question 5", "Question 6">>
RequestContent(r) == <<QuestionWord[r]>>

UserMessage(content) ==
    [role |-> "user", content |-> content, responses |-> <<>>]
AssistantMessage(responses) ==
    [role |-> "assistant", content |-> <<>>, responses |-> responses]

\* A handler's locals: session.messages as loaded, is_first_message,
\* member_ids_list, conversation_history, and run_group_chat's
\* selected_advisors and responses; calls are the gateway calls it has
\* made; events are what it has yielded on its stream; alone records that
\* every earlier request was over on arrival.
NewHandler ==
    [pc |-> "request", is_first_message |-> FALSE, messages |-> <<>>,
     member_ids |-> <<>>, conversation_history |-> <<>>,
     selected_advisors |-> <<>>, responses |-> <<>>, calls |-> <<>>,
     events |-> <<>>, alone |-> TRUE]

\* The two endpoints that send a message to a group chat session.
GroupChatEntries == {"send_group_chat_message", "send_group_chat_message_stream"}

FnIdle ==
    /\ fn_name = "none"
    /\ fn_args = <<>>
    /\ fn_result = <<>>
    /\ fn_done = FALSE
    /\ fn_again = <<>>

ApiInit ==
    \/ /\ entry = "send_message"
       /\ MonitoringIdle
       /\ ConfigIdle
       /\ RequestInit
       /\ GroupChatIdle
    \/ /\ entry \in GroupChatEntries
       /\ MonitoringIdle
       /\ ConfigIdle
       /\ PipelineIdle
       /\ FnIdle
       /\ group_ADVISORS = TestRoster
       /\ session \in
            {NoSession} \cup
            { [NoSession EXCEPT !.exists = TRUE, !.member_ids = ids] :
                ids \in SessionMembers }
       /\ handlers = [r \in 1..MaxRequests |-> NewHandler]
       /\ title_calls = 0
    \/ /\ entry = "run_group_chat"
       /\ MonitoringIdle
       /\ ConfigIdle
       /\ PipelineIdle
       /\ FnIdle
       /\ group_ADVISORS \in GroupRosters
       /\ session = NoSession
       /\ handlers \in
            { <<[NewHandler EXCEPT !.pc = "call", !.member_ids = ids]>> :
                ids \in MemberLists }
       /\ title_calls = 0

\* ---- send_message (main.py 226-268)
\* An exception leaves the handler: the request fails, nothing is yielded.
Fail(kind) ==
    /\ pc' = "Errored"
    /\ fault' = kind

\* main.py 232-238: load the conversation, 404 when it is missing.
SendMessage ==
    /\ entry = "send_message"
    /\ pc = "request"
    /\ IF conv_exists
       THEN /\ is_first_message' = (Len(messages) = 0)
            /\ pc' = "sync_found"
       ELSE /\ pc' = "rejected"
            /\ UNCHANGED is_first_message
    /\ UNCHANGED <<opsVars, groupVars, fnVars, label_to_model, aggregate_rankings,
                   chairman_calls, ADVISORS, conv_exists, messages, title,
                   events, tasks1, tasks2, chairman, stage1_results,
                   stage2_results, stage3_result, title_task, gw_calls, fault,
                   arrival>>

\* main.py 241-245: store the user message; on a first message call
\* generate_conversation_title and wait for it.
SendMessageAddUserMessage ==
    /\ pc = "sync_found"
    /\ \E db_ok \in BOOLEAN :
          IF db_ok
          THEN /\ messages' = add_message("user")
               /\ title_task' = IF is_first_message THEN "running" ELSE "none"
               /\ pc' = IF is_first_message THEN "sync_title" ELSE "sync_council"
               /\ UNCHANGED fault
          ELSE /\ Fail("storage")
               /\ UNCHANGED <<messages, title_task>>
    /\ UNCHANGED <<opsVars, groupVars, fnVars, label_to_model, aggregate_rankings,
                   chairman_calls, ADVISORS, conv_exists, title,
                   is_first_message, events, tasks1, tasks2, chairman,
                   stage1_results, stage2_results, stage3_result, gw_calls,
                   arrival>>

\* main.py 245-246: the title call, one gateway call, returns or raises;
\* the title is stored.
SendMessageTitle ==
    /\ pc = "sync_title"
    /\ title_task = "running"
    /\ \E r \in {"done", "failed"} :
          /\ title_task' = r
          /\ IF r = "failed"
             THEN /\ Fail("title")
                  /\ UNCHANGED title
             ELSE \E db_ok \in BOOLEAN :
                     IF db_ok
                     THEN /\ title' = update_conversation_title(TitleText)
                          /\ pc' = "sync_council"
                          /\ UNCHANGED fault
                     ELSE /\ Fail("storage")
                          /\ UNCHANGED title
    /\ gw_calls' = gw_calls + 1
    /\ UNCHANGED <<opsVars, groupVars, fnVars, label_to_model, aggregate_rankings,
                   chairman_calls, ADVISORS, conv_exists, messages,
                   is_first_message, events, tasks1, tasks2, chairman,
                   stage1_results, stage2_results, stage3_result, arrival>>

\* main.py 249 into run_full_council: Stage 1 is entered and its fan-out
\* created; the calls then run as they do on the stream.
RunStage1 ==
    /\ pc = "sync_council"
    /\ tasks1' = CreateTasks(ADVISORS)
    /\ pc' = "sync_gather1"
    /\ arrival' = <<>>
    /\ UNCHANGED <<opsVars, groupVars, fnVars, label_to_model, aggregate_rankings,
                   chairman_calls, ADVISORS, conv_exists, messages, title,
                   is_first_message, events, tasks2, chairman, stage1_results,
                   stage2_results, stage3_result, title_task, gw_calls, fault>>

\* run_full_council: Stage 1 returns and Stage 2 is entered.
RunStage2 ==
    /\ pc = "sync_gather1"
    /\ gather_done(tasks1)
    /\ stage1_results' = stage1_collect_responses(query_advisors_parallel(tasks1))
    /\ tasks2' = CreateTasks(ADVISORS)
    /\ pc' = "sync_gather2"
    /\ arrival' = <<>>
    /\ UNCHANGED <<opsVars, groupVars, fnVars, label_to_model, aggregate_rankings,
                   chairman_calls, ADVISORS, conv_exists, messages, title,
                   is_first_message, events, tasks1, chairman, stage2_results,
                   stage3_result, title_task, gw_calls, fault>>

\* run_full_council: Stage 2 returns and the aggregate is computed.
RunAggregate ==
    /\ pc = "sync_gather2"
    /\ gather_done(tasks2)
    /\ stage2_results' = stage2_collect_rankings(query_advisors_parallel(tasks2))
    /\ label_to_model' = LabelMap(stage1_results)
    /\ aggregate_rankings' =
          calculate_aggregate_rankings(stage2_results', label_to_model')
    /\ pc' = "sync_stage2"
    /\ UNCHANGED <<opsVars, groupVars, fnVars, chairman_calls, ADVISORS, conv_exists,
                   messages, title, is_first_message, events, tasks1, tasks2,
                   chairman, stage1_results, stage3_result, title_task,
                   gw_calls, fault, arrival>>

\* run_full_council: Stage 3.
RunStage3 ==
    /\ pc = "sync_stage2"
    /\ \E outcome \in OutcomesLeft :
          /\ chairman_calls' =
                Append(chairman_calls,
                       [ChairmanRequest EXCEPT
                           !.state = "done",
                           !.response = query_ollama(outcome, SynthesisText)])
          /\ stage3_result' =
                stage3_synthesize_final(query_ollama(outcome, SynthesisText))
          /\ RecordQuery(CHAIRMAN_MODEL, Success(outcome))
    /\ chairman' = "done"
    /\ gw_calls' = gw_calls + 1
    /\ pc' = "sync_stage3"
    /\ UNCHANGED <<quietVars, groupVars, fnVars, label_to_model, aggregate_rankings,
                   ADVISORS, conv_exists, messages, title, is_first_message,
                   events, tasks1, tasks2, stage1_results, stage2_results,
                   title_task, fault, arrival>>

\* main.py 254-268: store the assistant message and return the stages.
SendMessageAddAssistantMessage ==
    /\ pc = "sync_stage3"
    /\ \E db_ok \in BOOLEAN :
          IF db_ok
          THEN /\ messages' = add_message("assistant")
               /\ pc' = "sync_done"
               /\ UNCHANGED fault
          ELSE /\ Fail("storage")
               /\ UNCHANGED messages
    /\ UNCHANGED <<opsVars, groupVars, fnVars, label_to_model, aggregate_rankings,
                   chairman_calls, ADVISORS, conv_exists, title,
                   is_first_message, events, tasks1, tasks2, chairman,
                   stage1_results, stage2_results, stage3_result, title_task,
                   gw_calls, arrival>>

\* ---- run_group_chat (group_chat.py 9-67)
\* A selection that follows member_ids instead of the roster.
selected_in_member_order(member_ids) ==
    LET RECURSIVE pick(_)
        pick(k) ==
            IF k > Len(member_ids) THEN <<>>
            ELSE LET Chosen(a) == a.id = member_ids[k]
                 IN  SelectSeq(group_ADVISORS, Chosen) \o pick(k + 1)
    IN  pick(1)

\* A selection that falls back to the whole roster when nobody matches.
selected_or_everyone(member_ids) ==
    LET Chosen(a) == a.id \in SeqRange(member_ids)
        sel == SelectSeq(group_ADVISORS, Chosen)
    IN  IF sel = <<>> THEN group_ADVISORS ELSE sel

\* group_chat.py 22: the roster advisors whose id is in member_ids.
selected_advisors(member_ids) ==
    LET Chosen(a) == a.id \in SeqRange(member_ids)
    IN  SelectSeq(group_ADVISORS, Chosen)

\* group_chat.py 46-50: the gateway call for one advisor, not yet returned.
GroupCall(advisor) ==
    [model |-> advisor.model, state |-> "outstanding", outcome |-> "pending"]

\* run_group_chat from its entry to its first await: an empty selection
\* returns [] at once, otherwise the first advisor's call is posted.
run_group_chat(h, member_ids, conversation_history) ==
    LET sel == selected_advisors(member_ids)
    IN  IF sel = <<>>
        THEN [h EXCEPT !.selected_advisors = sel, !.responses = <<>>,
                       !.pc = "returned"]
        ELSE [h EXCEPT !.selected_advisors = sel, !.responses = <<>>,
                       !.calls = <<GroupCall(sel[1])>>, !.pc = "awaiting"]

\* group_chat.py 52-66: the entry one advisor contributes.
GroupResponse(advisor, response) ==
    LET response_text == IF response.ok THEN response.content ELSE <<>>
    IN  [advisor_id |-> advisor.id, advisor_name |-> advisor.name,
         model |-> advisor.model,
         response |-> clean_response_content(response_text)]

\* A loop that leaves out the advisors whose call failed.
AppendResponseIfAnswered(responses, advisor, response) ==
    IF response.ok THEN Append(responses, GroupResponse(advisor, response))
    ELSE responses

\* group_chat.py 61: responses.append(...).
AppendResponse(responses, advisor, response) ==
    Append(responses, GroupResponse(advisor, response))

\* A direct call of run_group_chat, as the unit tests make it.
RunGroupChat(r) ==
    /\ entry = "run_group_chat"
    /\ handlers[r].pc = "call"
    /\ handlers' =
          [handlers EXCEPT ![r] =
              run_group_chat(handlers[r], handlers[r].member_ids,
                             handlers[r].conversation_history)]
    /\ UNCHANGED <<opsVars, pipelineVars, fnVars, entry, group_ADVISORS, session,
                   title_calls>>

\* query_ollama returns for the advisor the loop stands at; its entry is
\* appended and the next advisor's call is posted, or the list returned.
QueryAdvisorFinish(r) ==
    /\ handlers[r].pc = "awaiting"
    /\ LET h == handlers[r]
           k == Len(h.calls)
           sel == h.selected_advisors
       IN  \E outcome \in OutcomesLeft :
            /\ RecordQuery(sel[k].model, Success(outcome))
            /\ handlers' =
                 [handlers EXCEPT
                    ![r].responses =
                        AppendResponse(h.responses, sel[k],
                                       query_ollama(outcome, RawAnswer(k))),
                    ![r].calls =
                        IF k < Len(sel)
                        THEN Append([h.calls EXCEPT ![k].state = "returned",
                                                    ![k].outcome = outcome],
                                    GroupCall(sel[k + 1]))
                        ELSE [h.calls EXCEPT ![k].state = "returned",
                                             ![k].outcome = outcome],
                    ![r].pc = IF k < Len(sel) THEN "awaiting" ELSE "returned"]
    /\ UNCHANGED <<quietVars, pipelineVars, fnVars, entry, group_ADVISORS, session,
                   title_calls>>

\* ---- send_group_chat_message (main.py 382-419) and
\* ---- send_group_chat_message_stream (main.py 422-484)
Over == {"done", "failed", "rejected", "closed"}

\* The streaming endpoint yields an event; the other one has no stream.
Yielded(h, e) ==
    IF entry = "send_group_chat_message_stream"
    THEN [h EXCEPT !.events = Append(@, e)] ELSE h

\* An exception ends the request; the streaming endpoint catches it and
\* yields the error event (main.py 473-475).
Failed(h) == Yielded([h EXCEPT !.pc = "failed"], "error")

\* A history that keeps the user messages only.
ConversationHistoryUsersOnly(msgs) ==
    LET Kept(msg) == msg.role = "user"
        kept == SelectSeq(msgs, Kept)
    IN  [i \in DOMAIN kept |-> [role |-> "user", content |-> kept[i].content]]

\* main.py 398-404: the history entries of the loaded messages.
ConversationHistory(msgs) ==
    LET Kept(msg) == \/ msg.role = "user"
                     \/ msg.role = "assistant" /\ msg.responses # <<>>
        kept == SelectSeq(msgs, Kept)
    IN  [i \in DOMAIN kept |->
            IF kept[i].role = "user"
            THEN [role |-> "user", content |-> kept[i].content]
            ELSE [role |-> "assistant", responses |-> kept[i].responses]]

\* A session lookup that stores the user message before it checks that the
\* session exists.
GetGroupChatSessionStoringFirst(r) ==
    /\ entry \in GroupChatEntries
    /\ handlers[r].pc = "request"
    /\ \A q \in 1..(r - 1) : handlers[q].pc # "request"
    /\ session' = [session EXCEPT
                      !.messages = Append(@, UserMessage(RequestContent(r)))]
    /\ handlers' =
          [handlers EXCEPT
             ![r].pc = IF session.exists THEN "loaded" ELSE "rejected",
             ![r].messages = session.messages,
             ![r].is_first_message = (Len(session.messages) = 0),
             ![r].member_ids = session.member_ids,
             ![r].alone = \A q \in 1..(r - 1) : handlers[q].pc \in Over]
    /\ UNCHANGED <<opsVars, pipelineVars, fnVars, entry, group_ADVISORS, title_calls>>

\* main.py 387-393 and 427-433: load the session, 404 when it is missing,
\* and note whether it has no message yet.  Requests are numbered as they
\* arrive.
GetGroupChatSession(r) ==
    /\ entry \in GroupChatEntries
    /\ handlers[r].pc = "request"
    /\ \A q \in 1..(r - 1) : handlers[q].pc # "request"
    /\ handlers' =
          [handlers EXCEPT
             ![r].pc = IF session.exists THEN "loaded" ELSE "rejected",
             ![r].messages = session.messages,
             ![r].is_first_message = (Len(session.messages) = 0),
             ![r].member_ids = session.member_ids,
             ![r].alone = \A q \in 1..(r - 1) : handlers[q].pc \in Over]
    /\ UNCHANGED <<opsVars, pipelineVars, fnVars, entry, group_ADVISORS, session,
                   title_calls>>

\* A storage layer that puts a new user message in front of the others.
add_group_chat_user_message_first(msgs, content) ==
    IF session.exists THEN <<UserMessage(content)>> \o msgs ELSE msgs

\* storage.py 205-215; in a session that has been deleted the row belongs
\* to no session.
add_group_chat_user_message(msgs, content) ==
    IF session.exists THEN Append(msgs, UserMessage(content)) ELSE msgs

\* storage.py 218-235, likewise.
add_group_chat_assistant_message(msgs, responses) ==
    IF session.exists THEN Append(msgs, AssistantMessage(responses)) ELSE msgs

\* storage.py 238-248: the title is written when the session is found.
update_group_chat_title(text) ==
    IF session.exists THEN text ELSE session.title

\* main.py 396-408: store the user message, build the history and call
\* run_group_chat, which runs to its first await.  main.py 437-456: on the
\* stream the generator stores the message, builds the history and
\* suspends at yield responses_start; run_group_chat is not entered yet.
AddGroupChatUserMessage(r) ==
    /\ handlers[r].pc = "loaded"
    /\ \E db_ok \in BOOLEAN :
          IF db_ok
          THEN /\ session' =
                     [session EXCEPT
                        !.messages =
                            add_group_chat_user_message(@, RequestContent(r))]
               /\ LET history == ConversationHistory(handlers[r].messages)
                      h == [handlers[r] EXCEPT !.conversation_history = history]
                  IN  handlers' =
                         [handlers EXCEPT ![r] =
                             IF entry = "send_group_chat_message_stream"
                             THEN Yielded([h EXCEPT !.pc = "started"],
                                          "responses_start")
                             ELSE run_group_chat(h, h.member_ids, history)]
          ELSE /\ handlers' = [handlers EXCEPT ![r] = Failed(@)]
               /\ UNCHANGED session
    /\ UNCHANGED <<opsVars, pipelineVars, fnVars, entry, group_ADVISORS, title_calls>>

\* main.py 457: the generator is resumed after responses_start and enters
\* run_group_chat, which runs to its first await.
StreamRunGroupChat(r) ==
    /\ entry = "send_group_chat_message_stream"
    /\ handlers[r].pc = "started"
    /\ handlers' =
          [handlers EXCEPT ![r] =
              run_group_chat(handlers[r], handlers[r].member_ids,
                             handlers[r].conversation_history)]
    /\ UNCHANGED <<opsVars, pipelineVars, fnVars, entry, group_ADVISORS, session,
                   title_calls>>

\* main.py 412-417: store the assistant message; on a first message call
\* generate_group_chat_title.
AddGroupChatAssistantMessage(r) ==
    /\ entry = "send_group_chat_message"
    /\ handlers[r].pc = "returned"
    /\ \E db_ok \in BOOLEAN :
          IF db_ok
          THEN /\ session' =
                     [session EXCEPT
                        !.messages =
                            add_group_chat_assistant_message(
                                @, handlers[r].responses)]
               /\ handlers' =
                     [handlers EXCEPT
                        ![r].pc = IF handlers[r].is_first_message
                                  THEN "titling" ELSE "done"]
               /\ title_calls' = IF handlers[r].is_first_message
                                 THEN title_calls + 1 ELSE title_calls
          ELSE /\ handlers' = [handlers EXCEPT ![r].pc = "failed"]
               /\ UNCHANGED <<session, title_calls>>
    /\ UNCHANGED <<opsVars, pipelineVars, fnVars, entry, group_ADVISORS>>

\* main.py 457-458: run_group_chat has returned; the generator suspends at
\* yield responses_complete.
ResponsesComplete(r) ==
    /\ entry = "send_group_chat_message_stream"
    /\ handlers[r].pc = "returned"
    /\ handlers' =
          [handlers EXCEPT
             ![r] = Yielded([@ EXCEPT !.pc = "responded"], "responses_complete")]
    /\ UNCHANGED <<opsVars, pipelineVars, fnVars, entry, group_ADVISORS, session,
                   title_calls>>

\* main.py 461-463: the generator is resumed after responses_complete on a
\* first message and calls generate_group_chat_title.
GenerateGroupChatTitle(r) ==
    /\ entry = "send_group_chat_message_stream"
    /\ handlers[r].pc = "responded"
    /\ handlers[r].is_first_message
    /\ handlers' = [handlers EXCEPT ![r].pc = "titling"]
    /\ title_calls' = title_calls + 1
    /\ UNCHANGED <<opsVars, pipelineVars, fnVars, entry, group_ADVISORS, session>>

\* main.py 417-420: the title call returns or raises; the title is stored
\* and the responses are returned.  main.py 463-465: the same on the
\* stream, where title_complete is yielded and the assistant message is
\* still to be stored.
GroupChatTitle(r) ==
    /\ handlers[r].pc = "titling"
    /\ \E t \in {"done", "failed"}, db_ok \in BOOLEAN :
          IF t = "done" /\ db_ok
          THEN /\ session' =
                     [session EXCEPT !.title = update_group_chat_title(TitleText)]
               /\ handlers' =
                     [handlers EXCEPT
                        ![r] = IF entry = "send_group_chat_message_stream"
                               THEN Yielded([@ EXCEPT !.pc = "titled"],
                                            "title_complete")
                               ELSE [@ EXCEPT !.pc = "done"]]
          ELSE /\ handlers' = [handlers EXCEPT ![r] = Failed(@)]
               /\ UNCHANGED session
    /\ UNCHANGED <<opsVars, pipelineVars, fnVars, entry, group_ADVISORS, title_calls>>

\* main.py 467-471: the generator is resumed after title_complete, or
\* after responses_complete when the message is not the first; it stores
\* the assistant message and yields complete.
StreamAddGroupChatAssistantMessage(r) ==
    /\ entry = "send_group_chat_message_stream"
    /\ \/ handlers[r].pc = "titled"
       \/ handlers[r].pc = "responded" /\ ~handlers[r].is_first_message
    /\ \E db_ok \in BOOLEAN :
          IF db_ok
          THEN /\ session' =
                     [session EXCEPT
                        !.messages =
                            add_group_chat_assistant_message(
                                @, handlers[r].responses)]
               /\ handlers' =
                     [handlers EXCEPT
                        ![r] = Yielded([@ EXCEPT !.pc = "done"], "complete")]
          ELSE /\ handlers' = [handlers EXCEPT ![r] = Failed(@)]
               /\ UNCHANGED session
    /\ UNCHANGED <<opsVars, pipelineVars, fnVars, entry, group_ADVISORS, title_calls>>

\* main.py 456, 458, 465: the client goes away while the generator stands
\* at a yield; the generator is closed there and runs no further.
StreamClosed(r) ==
    /\ entry = "send_group_chat_message_stream"
    /\ handlers[r].pc \in {"started", "responded", "titled"}
    /\ handlers' = [handlers EXCEPT ![r].pc = "closed"]
    /\ UNCHANGED <<opsVars, pipelineVars, fnVars, entry, group_ADVISORS, session,
                   title_calls>>

\* DELETE /api/group-chats/{id} (main.py 373-379, storage.py 251-260) from
\* another client: the session goes, and by the cascade of models.py 43
\* its messages with it.  A session that is not in storage is answered
\* with not-found and nothing changes.
DeleteGroupChatSession ==
    /\ entry \in GroupChatEntries
    /\ session.exists
    /\ session' = NoSession
    /\ UNCHANGED <<opsVars, pipelineVars, fnVars, entry, group_ADVISORS,
                   handlers, title_calls>>

ApiNext ==
    \/ SendMessage
    \/ DeleteConversation
    \/ DeleteGroupChatSession
    \/ SendMessageAddUserMessage
    \/ SendMessageTitle
    \/ RunStage1
    \/ \E i \in 1..MaxAdvisors : i \in DOMAIN tasks1 /\ QueryStart1(i)
    \/ \E i \in 1..MaxAdvisors : i \in DOMAIN tasks1 /\ QueryFinish1(i)
    \/ RunStage2
    \/ \E i \in 1..MaxAdvisors : i \in DOMAIN tasks2 /\ QueryStart2(i)
    \/ \E i \in 1..MaxAdvisors : i \in DOMAIN tasks2 /\ QueryFinish2(i)
    \/ RunAggregate
    \/ RunStage3
    \/ SendMessageAddAssistantMessage
    \/ \E r \in 1..MaxRequests : r \in DOMAIN handlers /\ RunGroupChat(r)
    \/ \E r \in 1..MaxRequests : r \in DOMAIN handlers /\ QueryAdvisorFinish(r)
    \/ \E r \in 1..MaxRequests : r \in DOMAIN handlers /\ GetGroupChatSession(r)
    \/ \E r \in 1..MaxRequests : r \in DOMAIN handlers /\ AddGroupChatUserMessage(r)
    \/ \E r \in 1..MaxRequests :
          r \in DOMAIN handlers /\ AddGroupChatAssistantMessage(r)
    \/ \E r \in 1..MaxRequests : r \in DOMAIN handlers /\ GroupChatTitle(r)
    \/ \E r \in 1..MaxRequests : r \in DOMAIN handlers /\ StreamRunGroupChat(r)
    \/ \E r \in 1..MaxRequests : r \in DOMAIN handlers /\ ResponsesComplete(r)
    \/ \E r \in 1..MaxRequests : r \in DOMAIN handlers /\ GenerateGroupChatTitle(r)
    \/ \E r \in 1..MaxRequests : r \in DOMAIN handlers /\ StreamClosed(r)
    \/ \E r \in 1..MaxRequests :
          r \in DOMAIN handlers /\ StreamAddGroupChatAssistantMessage(r)

ApiSpec == ApiInit /\ [][ApiNext]_vars

\* ----------------------------------------------------------- monitoring
MaxCalls == 3
MaxQueries == 2

\* The models and latencies of test_monitoring_stats; latencies are whole
\* milliseconds.
MetricModels == {"model_a", "model_b"}
Latencies == {100, 200}

\* round(total / n, 2), in hundredths of a millisecond.  A quotient of
\* whole milliseconds by fewer than eight calls never lies halfway between
\* two hundredths, so the rounding of ties plays no part.
Round2(total, n) ==
    LET q == (100 * total) \div n
        rest == (100 * total) % n
    IN  IF 2 * rest >= n THEN q + 1 ELSE q

\* An average that is cut off after two decimals instead of rounded.
AverageTruncated(total, n) ==
    IF n > 0 THEN (100 * total) \div n ELSE 0

\* monitoring.py 77-80 and 86-88 with the round of lines 93 and 100.
Average(total, n) ==
    IF n > 0 THEN Round2(total, n) ELSE 0

\* monitoring.py 75-103; average_latency_ms is in hundredths.
get_stats(S) ==
    [global |->
        [total_requests |-> S.requests_total,
         failed_requests |-> S.requests_failed,
         average_latency_ms |->
            Average(S.total_latency_ms, S.requests_total - S.requests_failed)],
     models |->
        [model \in DOMAIN S.models_usage |->
            LET data == S.models_usage[model]
            IN  [count |-> data.count, errors |-> data.errors,
                 average_latency_ms |->
                    Average(data.total_latency, data.count - data.errors)]]]

\* What can end a query_ollama post: a chat message with or without
\* 'content'; no answer in time; a failed connection; an HTTP error status;
\* a body that is not JSON, has no 'message', or whose 'message' is not an
\* object; the cancellation of the calling task.
Replies == {"content", "no content", "timeout", "transport error",
            "http error", "not json", "no message", "message not an object",
            "cancelled"}

\* ollama_client.py 79-94: what the try body raises on a reply.
Raises(reply) ==
    CASE reply = "timeout" -> "TimeoutException"
      [] reply = "transport error" -> "TransportError"
      [] reply = "http error" -> "HTTPStatusError"
      [] reply = "not json" -> "JSONDecodeError"
      [] reply = "no message" -> "KeyError"
      [] reply = "message not an object" -> "AttributeError"
      [] reply = "cancelled" -> "CancelledError"
      [] OTHER -> "nothing"

\* ollama_client.py 96: except Exception; CancelledError is a BaseException.
Caught(exception) == exception \notin {"nothing", "CancelledError"}

\* ollama_client.py 84-89: the replies with which line 89 is reached.
ReachesSuccess(reply) ==
    reply \in {"content", "no content", "message not an object"}

\* ollama_client.py 90-98: the value query_ollama returns.
QueryResult(reply) ==
    IF reply = "content" THEN Content(<<AnswerWord[1]>>)
    ELSE IF reply = "no content" THEN Content(<<>>)
    ELSE None

MonitorInit ==
    /\ entry \in {"record_request", "query_ollama"}
    /\ PipelineIdle
    /\ FnIdle
    /\ GroupChatIdle
    /\ ConfigIdle
    /\ MonitoringIdle

\* A direct call of record_request, as test_monitoring_stats makes it.
RecordRequest ==
    /\ entry = "record_request"
    /\ STATS.requests_total < MaxCalls
    /\ \E model \in MetricModels, latency_ms \in Latencies, success \in BOOLEAN :
          /\ STATS' = record_request(STATS, model, latency_ms, success)
          /\ recorded' = Logged(recorded, Metric(model, latency_ms, success))
    /\ UNCHANGED <<pipelineVars, fnVars, groupVars, queries, stats,
                   config_pc, config_request, new_advisors, config_seen>>

\* GET /api/monitoring (main.py 144-152) or a direct call of get_stats.
GetStats ==
    /\ stats' = get_stats(STATS)
    /\ stats' # stats
    /\ UNCHANGED <<pipelineVars, fnVars, groupVars, STATS, recorded, queries,
                   config_pc, config_request, new_advisors, config_seen>>

\* ollama_client.py 62-83: query_ollama up to the post.
QueryOllamaPost ==
    /\ entry = "query_ollama"
    /\ Len(queries) < MaxQueries
    /\ \E model \in MetricModels :
          queries' = Append(queries, [model |-> model, state |-> "posted",
                                      result |-> None, raised |-> FALSE,
                                      metric |-> <<>>])
    /\ UNCHANGED <<pipelineVars, fnVars, groupVars, STATS, recorded, stats,
                   config_pc, config_request, new_advisors, config_seen>>

\* ollama_client.py 84-101: the reply arrives or the post fails; the
\* result is returned and the finally clause records the metric.
QueryOllamaReturn(i) ==
    /\ queries[i].state = "posted"
    /\ \E reply \in Replies, elapsed_ms \in Latencies :
          /\ queries' = [queries EXCEPT
                ![i].state = reply,
                ![i].result = QueryResult(reply),
                ![i].raised = Raises(reply) # "nothing" /\ ~Caught(Raises(reply)),
                ![i].metric = <<Metric(queries[i].model, elapsed_ms,
                                       ReachesSuccess(reply))>>]
          /\ STATS' = record_request(STATS, queries[i].model, elapsed_ms,
                                     ReachesSuccess(reply))
          /\ recorded' = Logged(recorded, Metric(queries[i].model, elapsed_ms,
                                                  ReachesSuccess(reply)))
    /\ UNCHANGED <<pipelineVars, fnVars, groupVars, stats,
                   config_pc, config_request, new_advisors, config_seen>>

MonitorNext ==
    \/ RecordRequest
    \/ GetStats
    \/ QueryOllamaPost
    \/ \E i \in 1..MaxQueries : i \in DOMAIN queries /\ QueryOllamaReturn(i)

MonitorSpec == MonitorInit /\ [][MonitorNext]_vars

\* ------------------------------------------------ the council configuration
\* Advisor names are character sequences over "A", "a", "B" and the space;
\* str.lower() on these characters.
Lower(c) ==
    CASE c = "A" -> "a"
      [] c = "B" -> "b"
      [] OTHER -> c

SafeChars == {"a", "b", "_"}

\* main.py 165: re.sub(r'[^a-z0-9_]', '', name.lower().replace(' ', '_')).
SafeName(name) ==
    LET lowered == [i \in DOMAIN name |-> Lower(name[i])]
        replaced == [i \in DOMAIN name |->
                        IF lowered[i] = " " THEN "_" ELSE lowered[i]]
        Safe(c) == c \in SafeChars
    IN  SelectSeq(replaced, Safe)

\* main.py 166: f"prompts/{safe_name}.md".
PromptFile(safe_name) == <<"prompts/">> \o safe_name \o <<".md">>

\* main.py 179-185: the roster entry of one requested advisor.
NewAdvisor(advisor) ==
    [id |-> SafeName(advisor.name),
     name |-> advisor.name,
     model |-> advisor.model,
     prompt_file |-> PromptFile(SafeName(advisor.name)),
     description |-> <<>>]

\* CouncilConfigRequest (main.py 80-86): the i-th requested advisor runs
\* model ModelName[i]; its name is free.
ConfigRequest(names) ==
    [i \in DOMAIN names |-> [name |-> names[i], model |-> ModelName[i]]]

\* The requests served: no advisor, one advisor, the startup advisors in
\* the other order, a new advisor beside an old one, two advisors of one
\* name, and two whose names differ in case only.
ConfigRequests ==
    { ConfigRequest(names) :
        names \in {<<>>, <<<<"A">>>>, <<<<"B">>, <<"A">>>>,
                   <<<<"A", " ", "B">>, <<"B">>>>, <<<<"A">>, <<"A">>>>,
                   <<<<"A">>, <<"a">>>>} }

\* The roster in force at startup, saved by an earlier request.
StartupRoster ==
    <<NewAdvisor([name |-> <<"A">>, model |-> ModelName[1]]),
      NewAdvisor([name |-> <<"B">>, model |-> ModelName[2]])>>

\* Member lists of a group chat session: ids of the rosters above.
ConfigMembers == {<<SafeName(<<"A">>)>>,
                  <<SafeName(<<"B">>), SafeName(<<"A", " ", "B">>)>>}

\* config.ADVISORS is loaded at import (config.py 91); group_chat.py 5
\* binds its own name ADVISORS to that list when it is imported.  One
\* configuration request arrives while a streamed council request or a
\* run_group_chat call is served.
ConfigInit ==
    /\ entry \in {"send_message_stream", "run_group_chat"}
    /\ MonitoringIdle
    /\ FnIdle
    /\ config_pc = "request"
    /\ config_request \in ConfigRequests
    /\ new_advisors = <<>>
    /\ config_seen = <<>>
    /\ ADVISORS = StartupRoster
    /\ group_ADVISORS = StartupRoster
    /\ session = NoSession
    /\ title_calls = 0
    /\ handlers \in
          IF entry = "run_group_chat"
          THEN { <<[NewHandler EXCEPT !.pc = "call", !.member_ids = ids]>> :
                    ids \in ConfigMembers }
          ELSE {<<>>}
    /\ conv_exists = (entry = "send_message_stream")
    /\ messages = <<>>
    /\ title = <<"New Conversation">>
    /\ is_first_message = FALSE
    /\ pc = "request"
    /\ events = <<>>
    /\ tasks1 = <<>>
    /\ tasks2 = <<>>
    /\ chairman = "idle"
    /\ stage1_results = <<>>
    /\ stage2_results = <<>>
    /\ stage3_result = NoResult
    /\ title_task = "none"
    /\ arrival = <<>>
    /\ gw_calls = 0
    /\ fault = "none"
    /\ label_to_model = <<>>
    /\ aggregate_rankings = <<>>
    /\ chairman_calls = <<>>

\* config.py 75-88: config.ADVISORS is rebound to the new list, the name
\* ADVISORS of group_chat.py keeps the list it was bound to; a data
\* directory that cannot be made raises, a file that cannot be written
\* is only printed.
save_advisors(advisors) ==
    /\ ADVISORS' = advisors
    /\ UNCHANGED group_ADVISORS
    /\ \E dir_ok \in BOOLEAN :
          config_pc' = IF dir_ok THEN "saved" ELSE "failed"

\* main.py 159-170: the handler up to its first await, the persona of the
\* first advisor; a request without advisors saves the empty roster.
UpdateCouncilConfig ==
    /\ config_pc = "request"
    /\ new_advisors' = <<>>
    /\ IF config_request = <<>>
       THEN save_advisors(<<>>)
       ELSE /\ config_pc' = "generating"
            /\ UNCHANGED <<ADVISORS, group_ADVISORS>>
    /\ UNCHANGED <<STATS, recorded, queries, stats, config_request,
                   config_seen, fnVars, entry, session, handlers, title_calls,
                   conv_exists, messages, title, is_first_message, pc, events,
                   tasks1, tasks2, chairman, stage1_results, stage2_results,
                   stage3_result, title_task, arrival, gw_calls, fault,
                   label_to_model, aggregate_rankings, chairman_calls>>

\* main.py 170-190: generate_persona_markdown returns for one advisor, its
\* persona file is written and its entry appended; after the last advisor
\* the roster is saved and the handler returns.  save_persona_file makes
\* the prompts directory outside its try (persona_generator.py 117): when
\* that raises, as FileExistsError does for a file named prompts, the
\* request fails and no roster is saved.
PersonaGenerated ==
    /\ config_pc = "generating"
    /\ \E prompts_ok \in BOOLEAN :
          IF prompts_ok
          THEN LET k == Len(new_advisors) + 1
                   appended == Append(new_advisors, NewAdvisor(config_request[k]))
               IN  /\ new_advisors' = appended
                   /\ IF k = Len(config_request)
                      THEN save_advisors(appended)
                      ELSE UNCHANGED <<ADVISORS, group_ADVISORS, config_pc>>
          ELSE /\ config_pc' = "failed"
               /\ UNCHANGED <<new_advisors, ADVISORS, group_ADVISORS>>
    /\ UNCHANGED <<STATS, recorded, queries, stats, config_request,
                   config_seen, fnVars, entry, session, handlers, title_calls,
                   conv_exists, messages, title, is_first_message, pc, events,
                   tasks1, tasks2, chairman, stage1_results, stage2_results,
                   stage3_result, title_task, arrival, gw_calls, fault,
                   label_to_model, aggregate_rankings, chairman_calls>>

\* main.py 154-157: GET /api/council/config returns config.ADVISORS.
GetCouncilConfig ==
    /\ config_pc # "idle"
    /\ config_seen' = ADVISORS
    /\ config_seen' # config_seen
    /\ UNCHANGED <<STATS, recorded, queries, stats, config_pc, config_request,
                   new_advisors, pipelineVars, fnVars, groupVars>>

ConfigNext ==
    \/ entry = "send_message_stream" /\ Next
    \/ RunGroupChat(1)
    \/ handlers # <<>> /\ QueryAdvisorFinish(1)
    \/ UpdateCouncilConfig
    \/ PersonaGenerated
    \/ GetCouncilConfig

ConfigSpec == ConfigInit /\ [][ConfigNext]_vars

\* ================================================================= claims
StageOrder == <<"stage1_start", "stage1_complete", "stage2_start",
                "stage2_complete", "stage3_start", "stage3_complete", "complete">>

IsStageMarker(e) == \E k \in DOMAIN StageOrder : StageOrder[k] = e

Markers(ev) == SelectSeq(ev, IsStageMarker)

IsPrefix(a, b) == Len(a) <= Len(b) /\ \A k \in DOMAIN a : a[k] = b[k]

AllFinished(tasks) == \A i \in DOMAIN tasks : tasks[i].state = "done"

Emitted(e) == \E k \in DOMAIN events : events[k] = e

\* C1: the stage markers of a run are emitted in the order stage1_start,
\* stage1_complete, stage2_start, stage2_complete, stage3_start,
\* stage3_complete, complete, each at most once: the markers emitted so far
\* are always an initial segment of that sequence.
C1_StageMarkersInOrder == IsPrefix(Markers(events), StageOrder)

C1_Witness == pc = "Complete" /\ Markers(events) = StageOrder

\* C2: no Stage-2 task exists (no ranking prompt is built, no Stage-2 call
\* posted) before every Stage-1 call has finished, the chairman call is not
\* posted before every Stage-2 call has finished, and a stage's result is
\* built from finished calls only.
C2_StagesJoinBeforeNext ==
    /\ tasks2 # <<>> => AllFinished(tasks1)
    /\ Emitted("stage1_complete") => AllFinished(tasks1)
    /\ Emitted("stage2_start") => AllFinished(tasks1)
    /\ chairman # "idle" => /\ Emitted("stage2_complete")
                            /\ Len(tasks2) = Len(ADVISORS)
                            /\ AllFinished(tasks2)
    /\ Emitted("stage2_complete") => /\ Len(tasks2) = Len(ADVISORS)
                                     /\ AllFinished(tasks2)

C2_Witness ==
    /\ chairman = "inflight"
    /\ Len(tasks1) >= 2
    /\ \E i, j \in DOMAIN tasks1 : tasks1[i].response.ok /\ ~tasks1[j].response.ok
    /\ \E i, j \in DOMAIN tasks2 : tasks2[i].response.ok /\ ~tasks2[j].response.ok

\* ------------------------------------------------------------------------
EntryModels(entries) == [k \in DOMAIN entries |-> entries[k].model]

Stage1Returned == Emitted("stage1_complete")
Stage2Returned == Emitted("stage2_complete")

\* C3: once Stage 1 has returned, its list has exactly one AdvisorResponse
\* per roster advisor, the i-th entry carrying the i-th advisor's name and
\* the (sanitized) answer of the i-th advisor's call, whatever the order of
\* completion.
C3_OneResponsePerAdvisor ==
    Stage1Returned =>
        /\ Len(stage1_results) = Len(ADVISORS)
        /\ \A i \in DOMAIN ADVISORS :
              /\ stage1_results[i].model = ADVISORS[i].name
              /\ stage1_results[i].response = ResponseText(tasks1[i].response)

\* C4: Stage 2 creates one ranking call per roster advisor, all of them
\* together, and once it has returned its list has one RankingEntry per
\* roster advisor, the i-th entry carrying the i-th advisor's name and the
\* ranking text of the i-th advisor's call, whatever the order of
\* completion.
C4_RankingsInRosterOrder ==
    /\ pc = "s2_gather" =>
          /\ Len(tasks2) = Len(ADVISORS)
          /\ \A i \in DOMAIN tasks2 : tasks2[i].advisor = ADVISORS[i]
    /\ Stage2Returned =>
          /\ Len(stage2_results) = Len(ADVISORS)
          /\ \A i \in DOMAIN ADVISORS :
                /\ stage2_results[i].model = ADVISORS[i].name
                /\ stage2_results[i].ranking = ResponseText(tasks2[i].response)

FailedIn(tasks) == { i \in DOMAIN tasks : tasks[i].state = "done" /\ ~tasks[i].response.ok }

\* C5: when a call of a fan-out fails, every sibling call still runs to
\* completion, the stage returns instead of raising, and for every advisor
\* whose call failed the stage's list holds an entry of that advisor with
\* empty content.
C5_FailedAdvisorYieldsEmptyEntry ==
    /\ (pc = "Stage1Done" /\ FailedIn(tasks1) # {}) =>
          /\ AllFinished(tasks1)
          /\ fault = "none"
          /\ \A i \in FailedIn(tasks1) :
                \E k \in DOMAIN stage1_results :
                   /\ stage1_results[k].model = tasks1[i].advisor.name
                   /\ stage1_results[k].response = <<>>
    /\ (pc = "Stage2Done" /\ FailedIn(tasks2) # {}) =>
          /\ AllFinished(tasks2)
          /\ fault = "none"
          /\ \A i \in FailedIn(tasks2) :
                \E k \in DOMAIN stage2_results :
                   /\ stage2_results[k].model = tasks2[i].advisor.name
                   /\ stage2_results[k].ranking = <<>>

Last(seq) == seq[Len(seq)]

\* C6: a run over an empty roster is refused: it posts no gateway call, the
\* title's and the chairman's included, produces no stage output and no
\* complete, and ends with the error event at the entry of Stage 1.
C6_EmptyRosterRefused ==
    ADVISORS = <<>> =>
        /\ gw_calls = 0
        /\ chairman = "idle"
        /\ ~Emitted("stage1_complete") /\ ~Emitted("stage2_complete")
        /\ ~Emitted("stage3_complete") /\ ~Emitted("complete")
        /\ pc \in {"request", "rejected", "NotStarted", "s1_started", "Errored"}
        /\ pc = "Errored" => events # <<>> /\ Last(events) = "error"

Count(seq, e) == Cardinality({ k \in DOMAIN seq : seq[k] = e })

EmptyEntries(entries) == { k \in DOMAIN entries : entries[k].response = <<>> }

\* C7: a finished run over two or more advisors in which exactly one Stage-1
\* call timed out, every other gateway call succeeded and storage and title
\* did not fail has emitted complete and no error; its Stage-1 list has one
\* entry per advisor of which exactly one is empty, Stage 2 has run and the
\* synthesis is not empty.
C7_OneTimeoutStillCompletes ==
    ( /\ pc \in {"Complete", "Errored"}
      /\ Len(ADVISORS) >= 2
      /\ fault \notin {"storage", "title"}
      /\ Cardinality(FailedIn(tasks1)) = 1
      /\ FailedIn(tasks2) = {}
      /\ chairman = "done" => stage3_result.response # <<>> ) =>
        /\ pc = "Complete"
        /\ Emitted("complete") /\ ~Emitted("error")
        /\ Len(stage1_results) = Len(ADVISORS)
        /\ Cardinality(EmptyEntries(stage1_results)) = 1
        /\ Emitted("stage2_complete") /\ Len(stage2_results) >= 1
        /\ stage3_result.response # <<>>

\* C8: a run in which an exception was raised has emitted exactly one error
\* event, as its last event, and no complete; a run without one has emitted
\* no error; and every step leaves the events already emitted in place,
\* adding at most one.
C8_ErrorIsTerminal ==
    /\ [](/\ fault # "none" => /\ Count(events, "error") = 1
                               /\ Last(events) = "error"
                               /\ ~Emitted("complete")
                               /\ pc = "Errored"
          /\ fault = "none" => ~Emitted("error"))
    /\ [][/\ IsPrefix(events, events')
          /\ Len(events') <= Len(events) + 1
          /\ pc = "Errored" => events' = events]_vars

C8_Witness ==
    /\ pc = "Errored"
    /\ fault = "storage"
    /\ Emitted("stage3_complete")
    /\ Len(events) = 7

\* The states of the pipeline's state machine.
Phase ==
    CASE pc \in {"request", "rejected", "NotStarted"} -> "NotStarted"
      [] pc \in {"s1_started", "s1_gather"} -> "Stage1Running"
      [] pc = "Stage1Done" -> "Stage1Done"
      [] pc \in {"s2_started", "s2_gather"} -> "Stage2Running"
      [] pc = "Stage2Done" -> "Stage2Done"
      [] pc \in {"s3_started", "s3_call"} -> "Stage3Running"
      [] pc \in {"Stage3Done", "TitleDone"} -> "Stage3Done"
      [] pc = "Complete" -> "Complete"
      [] pc = "Errored" -> "Errored"

RunningPhases == {"Stage1Running", "Stage2Running", "Stage3Running"}

\* C9, as stated: the error state is entered only from a running state.
C9_ErroredOnlyFromRunning ==
    [][(Phase' = "Errored" /\ Phase # "Errored") => Phase \in RunningPhases]_vars

PhaseChain ==
    { <<"NotStarted", "Stage1Running">>, <<"Stage1Running", "Stage1Done">>,
      <<"Stage1Done", "Stage2Running">>, <<"Stage2Running", "Stage2Done">>,
      <<"Stage2Done", "Stage3Running">>, <<"Stage3Running", "Stage3Done">>,
      <<"Stage3Done", "Complete">> }

\* C9, amended: the pipeline follows NotStarted -> Stage1Running ->
\* Stage1Done -> Stage2Running -> Stage2Done -> Stage3Running -> Stage3Done
\* (stage3_complete emitted, title join and assistant message pending) ->
\* Complete, and the error state is entered only from NotStarted, from a
\* running state or from Stage3Done; never from Stage1Done or Stage2Done and
\* never after Complete.
C9_ErroredNeverBetweenStages ==
    [][Phase' # Phase =>
         \/ <<Phase, Phase'>> \in PhaseChain
         \/ /\ Phase' = "Errored"
            /\ Phase \in RunningPhases \cup {"NotStarted", "Stage3Done"}]_vars

C9_Witness ==
    /\ pc = "Errored"
    /\ Emitted("stage3_complete")
    /\ fault = "title"

CoreEventTypes ==
    {"stage1_start", "stage1_complete", "stage2_start", "stage2_complete",
     "stage3_start", "stage3_complete", "complete", "error"}

\* C10, as stated: every event of the stream is one of the eight types.
C10_OnlyStageEvents == \A k \in DOMAIN events : events[k] \in CoreEventTypes

CallFinishesIn(before, after) ==
    \E i \in DOMAIN before :
       before[i].state # "done" /\ i \in DOMAIN after /\ after[i].state = "done"

AdvisorCallFinishes == CallFinishesIn(tasks1, tasks1') \/ CallFinishesIn(tasks2, tasks2')

TitleTaskFinishes == title_task = "running" /\ title_task' # "running"

\* C10, amended: every event of the stream is one of the eight types or
\* title_complete, which is emitted at most once, directly after
\* stage3_complete, in a run on the conversation's first message; and a step
\* in which an advisor call or the title task finishes emits no event.
C10_StageAndTitleEvents ==
    /\ [](/\ \A k \in DOMAIN events :
                events[k] \in CoreEventTypes \cup {"title_complete"}
          /\ Count(events, "title_complete") <= 1
          /\ \A k \in DOMAIN events :
                events[k] = "title_complete" =>
                   /\ is_first_message
                   /\ k > 1 /\ events[k - 1] = "stage3_complete")
    /\ [][(AdvisorCallFinishes \/ TitleTaskFinishes) => events' = events]_vars

C10_Witness ==
    /\ pc = "Complete"
    /\ Emitted("title_complete")
    /\ Len(events) = 8

\* ------------------------------------------------------------ Stage 3
Stage3Failed == chairman = "done" /\ Last(chairman_calls).response = None

\* C11: Stage 3 posts exactly one gateway call in a pipeline invocation, to
\* the configured chairman model, and does not post it again when it fails.
C11_OneChairmanCall ==
    /\ Len(chairman_calls) <= 1
    /\ \A k \in DOMAIN chairman_calls : chairman_calls[k].model = CHAIRMAN_MODEL
    /\ (chairman = "idle") = (chairman_calls = <<>>)
    /\ Emitted("stage3_complete") => /\ Len(chairman_calls) = 1
                                     /\ stage3_result.model = CHAIRMAN_MODEL

C11_Witness ==
    /\ pc = "Complete"
    /\ Stage3Failed
    /\ Len(chairman_calls) = 1

\* C12: when the chairman call fails Stage 3 returns a result with an empty
\* response and stage3_complete is yielded rather than error; the Stage-1
\* and Stage-2 results already emitted stay as they were, in that step and
\* in every later one.
C12_ChairmanFailureIsEmptyResult ==
    [][/\ (chairman = "inflight" /\ chairman' = "done"
            /\ Last(chairman_calls').response = None)
          => /\ stage3_result'.response = <<>>
             /\ events' = Append(events, "stage3_complete")
             /\ pc' = "Stage3Done"
       /\ (chairman' = "done" /\ Last(chairman_calls').response = None)
          => /\ stage1_results' = stage1_results
             /\ stage2_results' = stage2_results
             /\ label_to_model' = label_to_model
             /\ aggregate_rankings' = aggregate_rankings]_vars

C12_Witness ==
    /\ Stage3Failed
    /\ pc = "Complete"
    /\ stage3_result.response = <<>>
    /\ \E i \in DOMAIN stage1_results : stage1_results[i].response # <<>>
    /\ \E i \in DOMAIN stage2_results : stage2_results[i].ranking # <<>>
    /\ ~Emitted("error")

\* ------------------------------------------------------------ Stage 2
\* C13: the i-th Stage-1 response receives the i-th label; the labels of a
\* Stage-2 invocation are pairwise distinct and the label map pairs them
\* one-to-one with the models of the Stage-1 responses.
C13_LabelMapIsBijection ==
    Emitted("stage2_complete") =>
        /\ Len(label_to_model) = Len(stage1_results)
        /\ \A i \in DOMAIN stage1_results :
              label_to_model[i] = <<Labels[i], stage1_results[i].model>>
        /\ \A i, j \in DOMAIN label_to_model :
              i # j => /\ label_to_model[i][1] # label_to_model[j][1]
                       /\ label_to_model[i][2] # label_to_model[j][2]
        /\ SeqRange(EntryModels(stage1_results)) =
              { label_to_model[i][2] : i \in DOMAIN label_to_model }

C13_Witness ==
    /\ Emitted("stage2_complete")
    /\ Len(ADVISORS) = 2
    /\ label_to_model = << <<"Response A", "B">>, <<"Response B", "A">> >>

NamesOfRoster == [i \in DOMAIN ADVISORS |-> ADVISORS[i].name]

\* Two Stage-2 invocations that differ at most in who wrote the answers.
SamePublicInputs(a, b) ==
    /\ a.question = b.question
    /\ Len(a.stage1) = Len(b.stage1)
    /\ \A i \in DOMAIN a.stage1 : a.stage1[i].response = b.stage1[i].response

\* C14: what Stage 2 sends its advisors does not tell who wrote which
\* answer: two invocations with the same question and the same response
\* texts post the same messages, persona and ranking prompt, to every
\* advisor of the roster, whatever the model identifiers of the responses
\* are.
C14_PromptHidesModels ==
    (fn_name = "stage2_collect_rankings" /\ fn_done) =>
        /\ Len(fn_result[1]) = Len(ADVISORS)
        /\ Len(fn_result[2]) = Len(ADVISORS)
        /\ SamePublicInputs(fn_args.first, fn_args.second)
              => fn_result[1] = fn_result[2]

C14_Witness ==
    /\ fn_name = "stage2_collect_rankings"
    /\ fn_done
    /\ SamePublicInputs(fn_args.first, fn_args.second)
    /\ EntryModels(fn_args.first.stage1) = <<"A", "B">>
    /\ EntryModels(fn_args.second.stage1) = <<"B", "A">>
    /\ NamesOfRoster = <<"A", "B">>
    /\ Len(fn_result[1][1]) = 2
    /\ fn_result[1][1][1] = [role |-> "system", content |-> <<"You are", "A">>]
    /\ Len(fn_result[1][2]) = 1
    /\ fn_result[1][2][1].role = "user"
    /\ fn_result[1] = fn_result[2]

\* C15: the parsed ranking is the labels, in order, of the longest run of
\* lines "<rank>. <label>" that directly follows the first header line; it
\* is empty when the text has no header line.
C15_ParsedIsGreedyRun ==
    (fn_name = "parse_ranking_from_text" /\ fn_done) =>
              LET lines == fn_args
                  headers == { k \in DOMAIN lines : lines[k] = <<HeaderLine>> }
              IN  IF headers = {} THEN fn_result = <<>>
                  ELSE \E h \in headers :
                         /\ \A k \in headers : h <= k
                         /\ \E n \in 0..(Len(lines) - h) :
                               /\ Len(fn_result) = n
                               /\ \A k \in 1..n :
                                     /\ Len(lines[h + k]) = 2
                                     /\ lines[h + k][1] \in {"1.", "2."}
                                     /\ fn_result[k] = lines[h + k][2]
                               /\ \/ h + n = Len(lines)
                                  \/ Len(lines[h + n + 1]) # 2

C15_Witness ==
    /\ fn_name = "parse_ranking_from_text"
    /\ fn_done
    /\ fn_args = << <<HeaderLine>>, <<"1.", "Response B">>, <<"prose">>,
                    <<"2.", "Response A">> >>
    /\ fn_result = <<"Response B">>

\* A ranking text with no header line, or with no "<rank>. <label>" line
\* directly under it.
Unparseable(text) ==
    LET lines == SplitLines(text)
        h == FirstHeader(lines)
    IN  h = 0 \/ h = Len(lines) \/ ~IsRankLine(lines[h + 1])

\* C16: once Stage 2 has returned, every advisor whose ranking text is
\* unparseable has an entry with that text and an empty parsed ranking,
\* every other advisor has the entry of its ranking, parsed; Stage 2
\* completes and the failure to parse puts no error event on the stream.
C16_UnparseableRankingIsLocal ==
    /\ Emitted("stage2_complete") =>
          \A i \in DOMAIN tasks2 :
             \E k \in DOMAIN stage2_results :
                /\ stage2_results[k].model = tasks2[i].advisor.name
                /\ stage2_results[k].ranking = ResponseText(tasks2[i].response)
                /\ Unparseable(ResponseText(tasks2[i].response))
                      <=> stage2_results[k].parsed_ranking = <<>>
    /\ (Emitted("error") /\ Emitted("stage2_start")) => Emitted("stage2_complete")
    /\ pc = "Stage2Done" => Last(events) = "stage2_complete"
    /\ fault \in {"none", "storage", "title"}

\* --------------------------------------------------------- aggregation
Aggregated == fn_name = "calculate_aggregate_rankings" /\ fn_done
ParsedOf(results) == [j \in DOMAIN results |-> results[j].parsed_ranking]
MapKeys(map) == { map[i][1] : i \in DOMAIN map }
MapRange(map) == { map[i][2] : i \in DOMAIN map }

\* Where a model stands in the rankings: <<advisor, position>> for every
\* occurrence of a label that the map resolves to the model.
Standings(model, results, map) ==
    { jp \in UNION { { <<j, q>> : q \in DOMAIN results[j].parsed_ranking } :
                        j \in DOMAIN results } :
        \E i \in DOMAIN map :
            map[i] = <<results[jp[1]].parsed_ranking[jp[2]], model>> }

RECURSIVE PositionSum(_)
PositionSum(standings) ==
    IF standings = {} THEN 0
    ELSE LET jp == CHOOSE x \in standings : TRUE
         IN  jp[2] + PositionSum(standings \ {jp})

\* C17: an entry's average rank is the arithmetic mean of the 1-based
\* positions its model holds in the advisors' parsed rankings and its votes
\* the number of those positions; the judges [A,B] and [B,A] give both
\* models average 1.5 (the fraction 3/2) and 2 votes.
C17_AverageIsMeanPosition ==
    Aggregated =>
        LET results == fn_args.stage2_results
            map == fn_args.label_to_model
        IN  /\ \A k \in DOMAIN fn_result :
                  LET st == Standings(fn_result[k].model, results, map)
                  IN  /\ fn_result[k].votes = Cardinality(st)
                      /\ fn_result[k].average_rank[2] > 0
                      /\ fn_result[k].average_rank[1] * Cardinality(st)
                            = PositionSum(st) * fn_result[k].average_rank[2]
            /\ (/\ ParsedOf(results) = << <<"Response A", "Response B">>,
                                          <<"Response B", "Response A">> >>
                /\ Len(map) >= 2)
                 => /\ Len(fn_result) = 2
                    /\ \A k \in DOMAIN fn_result :
                          /\ fn_result[k].average_rank = <<3, 2>>
                          /\ fn_result[k].votes = 2

C17_Witness ==
    /\ Aggregated
    /\ ParsedOf(fn_args.stage2_results) = << <<"Response A", "Response B">>,
                                             <<"Response B", "Response A">> >>
    /\ Len(fn_args.label_to_model) = 2
    /\ EntryModels(fn_result) = <<"Model A", "Model B">>
    /\ fn_result[1].average_rank = <<3, 2>>
    /\ fn_result[2].votes = 2

MapIndex(map, model) == CHOOSE i \in DOMAIN map : map[i][2] = model

\* C18: the aggregate is in ascending order of average rank, and entries of
\* equal average stand in the order of the label map (the Stage-1 order),
\* wherever their labels stand in the rankings.
C18_SortedStableByAverage ==
    Aggregated =>
        \A i, j \in DOMAIN fn_result :
            i < j =>
                /\ ~RatLess(fn_result[j].average_rank, fn_result[i].average_rank)
                /\ fn_result[i].average_rank = fn_result[j].average_rank
                     => MapIndex(fn_args.label_to_model, fn_result[i].model)
                          < MapIndex(fn_args.label_to_model, fn_result[j].model)

C18_Witness ==
    /\ Aggregated
    /\ ParsedOf(fn_args.stage2_results) = << <<"Response C", "Response B">>,
                                             <<"Response B", "Response C">> >>
    /\ Len(fn_args.label_to_model) = 3
    /\ EntryModels(fn_result) = <<"Model B", "Model C">>
    /\ fn_result[1].average_rank = fn_result[2].average_rank

\* C19: a model whose label stands in no parsed ranking has no entry; every
\* entry has at least one vote, and there is one entry for each model that
\* has a standing.
C19_NoEntryWithoutVotes ==
    Aggregated =>
        LET results == fn_args.stage2_results
            map == fn_args.label_to_model
        IN  /\ \A k \in DOMAIN fn_result : fn_result[k].votes >= 1
            /\ \A mdl \in MapRange(map) :
                  (Standings(mdl, results, map) = {})
                      <=> (mdl \notin SeqRange(EntryModels(fn_result)))
            /\ \A i, j \in DOMAIN fn_result :
                  i # j => fn_result[i].model # fn_result[j].model

C19_Witness ==
    /\ Aggregated
    /\ Len(fn_args.label_to_model) = 3
    /\ ParsedOf(fn_args.stage2_results) = << <<"Response A", "Response B">>,
                                             <<"Response B">> >>
    /\ EntryModels(fn_result) = <<"Model A", "Model B">>

\* C20: a label of a parsed ranking that is not a key of the label map is
\* dropped: the aggregate has entries for models of the map only, and its
\* votes are the occurrences of the labels that are keys of the map.
C20_UnknownLabelsDropped ==
    Aggregated =>
        LET results == fn_args.stage2_results
            map == fn_args.label_to_model
            known == { jp \in UNION { { <<j, q>> : q \in DOMAIN results[j].parsed_ranking } :
                                         j \in DOMAIN results } :
                         results[jp[1]].parsed_ranking[jp[2]] \in MapKeys(map) }
        IN  /\ SeqRange(EntryModels(fn_result)) \subseteq MapRange(map)
            /\ Sum([k \in DOMAIN fn_result |-> fn_result[k].votes]) = Cardinality(known)

C20_Witness ==
    /\ Aggregated
    /\ Len(fn_args.label_to_model) = 2
    /\ ParsedOf(fn_args.stage2_results) = << <<"Response C", "Response A">> >>
    /\ fn_result = << [model |-> "Model A", average_rank |-> <<2, 1>>, votes |-> 1] >>

\* C21: adding a RankingEntry with an empty parsed ranking to the input of
\* the aggregation changes no model's votes and no model's average rank.
C21_EmptyEntryChangesNothing ==
    (fn_name = "calculate_aggregate_rankings, one more entry" /\ fn_done) =>
        /\ Len(fn_result[1]) = Len(fn_result[2])
        /\ \A k \in DOMAIN fn_result[1] :
              /\ fn_result[2][k].model = fn_result[1][k].model
              /\ fn_result[2][k].votes = fn_result[1][k].votes
              /\ fn_result[2][k].average_rank = fn_result[1][k].average_rank

C21_Witness ==
    /\ fn_name = "calculate_aggregate_rankings, one more entry"
    /\ fn_done
    /\ fn_args.at = 1
    /\ Len(fn_args.stage2_results) = 2
    /\ Len(fn_result[2]) = 2
    /\ fn_result[2][1].votes = 2

\* ------------------------------------------------------- ResponseSanitizer
Cleaned == fn_name = "clean_response_content" /\ fn_done
HasFragments(t) == SeqRange(t) \cap {OpenHalf, CloseHalf, EndHalf} # {}

\* C23: clean(clean(x)) = clean(x) for every text x: without markup, with a
\* well-formed block, an unterminated block, a block inside a line, nested
\* blocks and markers cut in two around a block.
C23_CleanIsIdempotent ==
    (Cleaned /\ fn_again # <<>>) => fn_again[1] = fn_result

C23_Witness ==
    /\ Cleaned
    /\ fn_args = <<OpenHalf, ThinkOpen, "a", ThinkClose, EndHalf>>
    /\ fn_result = <<>>
    /\ fn_again = << <<>> >>

\* The token at place q of x lies in a reasoning block: a start marker
\* stands at or before q with no end marker between it and q.
InBlock(x, q) ==
    \E i \in 1..q : /\ x[i] = ThinkOpen
                     /\ \A k \in (i + 1)..(q - 1) : x[k] # ThinkClose
OutsideBlocks(x) ==
    LET places == SelectSeq([q \in DOMAIN x |-> q], LAMBDA q : ~InBlock(x, q))
    IN  [k \in DOMAIN places |-> x[places[k]]]
Words(t) == SelectSeq(t, LAMBDA tok : ~IsWhite(tok))

\* C24: for a text whose markers are whole, clean removes every block from
\* its start marker through its end marker, or to the end of the text when
\* there is no end marker, and keeps the words outside the blocks in their
\* order; no start marker is left in any cleaned text.
C24_BlocksRemovedRestKept ==
    Cleaned =>
        /\ ThinkOpen \notin SeqRange(fn_result)
        /\ ~HasFragments(fn_args) => Words(fn_result) = Words(OutsideBlocks(fn_args))

C24_Witness ==
    /\ Cleaned
    /\ fn_args = <<"a", ThinkOpen, "b", ThinkClose, "b">>
    /\ fn_result = <<"a", "b">>

\* ------------------------------------------------- the title and the stages
\* The user message is stored and Stage 1 has not been entered yet.
BeforeStage1 ==
    /\ Len(messages) > 0
    /\ messages[Len(messages)] = "user"
    /\ pc \in {"s1_started", "sync_title", "sync_council"}

\* C25: title generation runs beside the three stages and is joined only at
\* the end.  While the title call is still running Stage 1 can start; the
\* title is stored only after Stage 3 has returned; and when the title call
\* fails, the three stages have run all the same.
C25_TitleNeverBlocksStages ==
    /\ (title_task = "running" /\ BeforeStage1)
          => ENABLED (Stage1Fanout \/ RunStage1)
    /\ (title = TitleText) => (chairman = "done")
    /\ (fault = "title") => (chairman = "done")

\* ------------------------------------------------------------ run_group_chat
\* The ids of the roster advisors a member list names, read off the roster
\* from its first advisor to its last.
NamedInRoster(member_ids) ==
    LET RECURSIVE walk(_)
        walk(i) ==
            IF i > Len(group_ADVISORS) THEN <<>>
            ELSE (IF \E k \in DOMAIN member_ids :
                        member_ids[k] = group_ADVISORS[i].id
                  THEN <<group_ADVISORS[i].id>> ELSE <<>>) \o walk(i + 1)
    IN  walk(1)

ResponseIds(h) == [i \in DOMAIN h.responses |-> h.responses[i].advisor_id]

Returned(h) ==
    \/ h.pc \in {"returned", "responded", "titling", "titled", "done"}
    \/ h.pc = "closed" /\ "responses_complete" \in SeqRange(h.events)

\* C26: run_group_chat returns one response per roster advisor whose id is
\* in member_ids, in roster order; it queries no advisor that was not
\* selected, and an id of no roster advisor yields no entry.
C26_OneResponsePerSelected ==
    \A r \in DOMAIN handlers :
        LET h == handlers[r]
        IN  /\ Returned(h) =>
                 /\ ResponseIds(h) = NamedInRoster(h.member_ids)
                 /\ Len(h.calls) = Len(h.responses)
            /\ \A c \in DOMAIN h.calls :
                  \E i \in DOMAIN group_ADVISORS :
                     /\ group_ADVISORS[i].model = h.calls[c].model
                     /\ group_ADVISORS[i].id \in SeqRange(h.member_ids)

C26_Witness ==
    /\ entry = "run_group_chat"
    /\ group_ADVISORS = TestRoster
    /\ handlers[1].pc = "returned"
    /\ handlers[1].member_ids = <<"advisor_c", "advisor_a">>
    /\ ResponseIds(handlers[1]) = <<"advisor_a", "advisor_c">>
    /\ Len(handlers[1].calls) = 2

\* C27: when member_ids names no roster advisor, run_group_chat returns the
\* empty list and posts no gateway call.
C27_NobodySelectedNoCall ==
    \A r \in DOMAIN handlers :
        LET h == handlers[r]
        IN  NamedInRoster(h.member_ids) = <<>> =>
               /\ h.calls = <<>>
               /\ h.responses = <<>>
               /\ h.pc # "awaiting"

C27_Witness ==
    /\ entry = "run_group_chat"
    /\ group_ADVISORS # <<>>
    /\ handlers[1].member_ids = <<"nobody">>
    /\ handlers[1].pc = "returned"
    /\ handlers[1].responses = <<>>
    /\ handlers[1].calls = <<>>

\* ------------------------------------------------------- the session's title
\* C28: whatever requests are sent to a session, its title is generated at
\* most once.
C28_TitleAtMostOnce == title_calls <= 1

\* The same for requests that each arrive after the one before is over.
TitleAtMostOnceInTurn ==
    (\A r \in DOMAIN handlers : handlers[r].alone) => title_calls <= 1

\* ------------------------------------------------------------ not found
\* C29: a message sent to a conversation or group chat session that is not
\* in storage is answered with not-found, and that is all the request does:
\* the step that answers it stores no message, generates no title and
\* makes no gateway call, and the request takes no step after it.
C29_NotFoundChangesNothing ==
    [][/\ (entry = "send_message" /\ ~conv_exists /\ pc = "request"
               /\ pc' # "request") =>
             /\ pc' = "rejected"
             /\ UNCHANGED <<messages, title, title_task, gw_calls, STATS>>
       /\ (entry = "send_message" /\ pc = "rejected") =>
             UNCHANGED <<pc, messages, title, title_task, gw_calls, STATS>>
       /\ \A r \in DOMAIN handlers :
             /\ (entry \in GroupChatEntries /\ ~session.exists
                    /\ handlers[r].pc = "request"
                    /\ handlers'[r].pc # "request") =>
                   /\ handlers'[r].pc = "rejected"
                   /\ handlers'[r].calls = <<>>
                   /\ UNCHANGED <<session, title_calls, STATS>>
             /\ (entry \in GroupChatEntries
                    /\ handlers[r].pc = "rejected") =>
                   handlers'[r] = handlers[r]]_vars

C29_Witness ==
    /\ entry = "send_group_chat_message"
    /\ ~session.exists
    /\ \A r \in DOMAIN handlers : handlers[r].pc = "rejected"

\* ------------------------------------------------- the session's messages
\* The requests that have arrived, and those that have returned their
\* responses.
Arrived == { r \in DOMAIN handlers : handlers[r].pc # "request" }
Completed == { r \in DOMAIN handlers : handlers[r].pc = "done" }

\* Every request so far has completed, each before the next one arrived.
InTurn ==
    /\ entry \in GroupChatEntries
    /\ Arrived = Completed
    /\ \A r \in Arrived : handlers[r].alone

\* C30: after n requests on one session, each completing before the next
\* starts, the session (while it is in storage) holds 2n messages: user, assistant, user, assistant,
\* ..., the k-th user message with the content of the k-th request and the
\* assistant message after it with that request's responses.
C30_MessagesAlternate ==
    (InTurn /\ session.exists) =>
       /\ Len(session.messages) = 2 * Cardinality(Completed)
       /\ \A k \in Completed :
             /\ session.messages[2 * k - 1] = UserMessage(RequestContent(k))
             /\ session.messages[2 * k] = AssistantMessage(handlers[k].responses)

C30_Witness ==
    /\ InTurn
    /\ session.exists
    /\ {1, 2} \subseteq Completed
    /\ Len(session.messages) >= 4
    /\ session.messages[3].role = "user"
    /\ session.messages[3].content = RequestContent(2)
    /\ session.messages[4].role = "assistant"
    /\ session.messages[4].responses # <<>>

\* -------------------------------------------------- the history of a request
\* The history entry that stands for a stored message.
EntryOf(msg) ==
    IF msg.role = "user" THEN [role |-> "user", content |-> msg.content]
    ELSE [role |-> "assistant", responses |-> msg.responses]

\* The entries of the messages of a list, in order: all of them, or all
\* but the assistant messages that carry no response.
RECURSIVE EntriesOf(_, _)
EntriesOf(msgs, all) ==
    IF msgs = <<>> THEN <<>>
    ELSE LET msg == Head(msgs)
         IN  (IF all \/ msg.role = "user" \/ msg.responses # <<>>
              THEN <<EntryOf(msg)>> ELSE <<>>) \o EntriesOf(Tail(msgs), all)

\* run_group_chat has been called for the request.
Called(h) ==
    \/ h.pc \in {"awaiting", "returned", "responded", "titling", "titled", "done"}
    \/ h.pc = "closed" /\ "responses_complete" \in SeqRange(h.events)

OwnMessageLeftOut(r) ==
    \A i \in DOMAIN handlers[r].conversation_history :
        LET e == handlers[r].conversation_history[i]
        IN  e.role = "user" => e.content # RequestContent(r)

\* C31 as stated: the history passed to run_group_chat holds an entry for
\* every message the session had when the request arrived, in order, and
\* none for the request's own user message; it is empty for a first
\* message.
C31_HistoryIsAllMessages ==
    entry \in GroupChatEntries =>
       \A r \in DOMAIN handlers :
          Called(handlers[r]) =>
             /\ handlers[r].conversation_history =
                   EntriesOf(handlers[r].messages, TRUE)
             /\ OwnMessageLeftOut(r)
             /\ handlers[r].is_first_message =>
                   handlers[r].conversation_history = <<>>

\* C31, amended: the history holds, in order, an entry for every message
\* the session had when the request arrived except the assistant messages
\* without responses, and none for the request's own user message; it is
\* empty for a first message.
C31_HistoryIsMessagesWithResponses ==
    entry \in GroupChatEntries =>
       \A r \in DOMAIN handlers :
          Called(handlers[r]) =>
             /\ handlers[r].conversation_history =
                   EntriesOf(handlers[r].messages, FALSE)
             /\ OwnMessageLeftOut(r)
             /\ handlers[r].is_first_message =>
                   handlers[r].conversation_history = <<>>

C31_Witness ==
    /\ entry = "send_group_chat_message"
    /\ Called(handlers[2])
    /\ Len(handlers[2].messages) = 2
    /\ Len(session.messages) >= 3
    /\ handlers[2].conversation_history =
          <<[role |-> "user", content |-> RequestContent(1)],
            [role |-> "assistant", responses |-> handlers[1].responses]>>

\* ------------------------------------------------- run_group_chat's calls
\* The models of the roster advisors a member list names, in roster order.
ModelsNamed(member_ids) ==
    LET RECURSIVE walk(_)
        walk(i) ==
            IF i > Len(group_ADVISORS) THEN <<>>
            ELSE (IF group_ADVISORS[i].id \in SeqRange(member_ids)
                  THEN <<group_ADVISORS[i].model>> ELSE <<>>) \o walk(i + 1)
    IN  walk(1)

\* C39: run_group_chat queries the selected advisors one at a time in
\* roster order: its calls are a prefix of the selected advisors' models,
\* only the last of them can be outstanding, and every call that has
\* returned has its entry, empty when the call failed; when run_group_chat
\* returns every selected advisor has been queried.
C39_OneCallAtATime ==
    \A r \in DOMAIN handlers :
        LET h == handlers[r]
            named == ModelsNamed(h.member_ids)
        IN  /\ Len(h.calls) <= Len(named)
            /\ \A c \in DOMAIN h.calls :
                  /\ h.calls[c].model = named[c]
                  /\ h.calls[c].state = "outstanding" => c = Len(h.calls)
                  /\ h.calls[c].state = "returned" =>
                        /\ c \in DOMAIN h.responses
                        /\ h.responses[c].model = named[c]
                        /\ (h.calls[c].outcome = "timeout")
                              => (h.responses[c].response = <<>>)
            /\ Len(h.responses) =
                  Cardinality({ c \in DOMAIN h.calls :
                                  h.calls[c].state = "returned" })
            /\ Returned(h) =>
                  /\ Len(h.calls) = Len(named)
                  /\ \A c \in DOMAIN h.calls : h.calls[c].state = "returned"

C39_Witness ==
    /\ entry = "run_group_chat"
    /\ handlers[1].pc = "returned"
    /\ Len(handlers[1].calls) = 2
    /\ handlers[1].calls[1].outcome = "timeout"
    /\ handlers[1].calls[2].outcome = "ok"
    /\ handlers[1].responses[1].response = <<>>
    /\ handlers[1].responses[2].response # <<>>

\* ------------------------------------------- the turn's assistant message
\* The assistant messages the run has added to the conversation, which
\* held one already unless the run's message is its first.
AssistantStored ==
    Count(messages, "assistant") - (IF is_first_message THEN 0 ELSE 1)

Running == pc \notin {"request", "rejected"}

\* C35: complete is emitted only after the turn's assistant message has
\* been stored; the message is stored once in a run that reaches complete
\* and not at all in a run that ends with error, and it is the last message
\* of the conversation, as long as the conversation has not been deleted.
C35_CompleteAfterStore ==
    (Running /\ conv_exists) =>
       /\ AssistantStored = (IF Emitted("complete") THEN 1 ELSE 0)
       /\ Emitted("error") => AssistantStored = 0
       /\ Emitted("complete") => messages[Len(messages)] = "assistant"

C35_Witness ==
    /\ Emitted("complete")
    /\ ~is_first_message
    /\ messages = <<"user", "assistant", "user", "assistant">>

\* C36: a request stores its user message and its assistant message
\* together or not at all: once the request is over, every user message of
\* the conversation, if it still exists, is followed by an assistant
\* message.
C36_UserAndAssistantTogether ==
    (pc \in {"Complete", "Errored", "sync_done"} /\ conv_exists) =>
       \A k \in DOMAIN messages :
          messages[k] = "user" =>
             /\ k < Len(messages)
             /\ messages[k + 1] = "assistant"

\* The sum of weight[x] over the x in S.
RECURSIVE SumOver(_, _)
SumOver(weight, S) ==
    IF S = {} THEN 0
    ELSE LET x == CHOOSE y \in S : TRUE
         IN  weight[x] + SumOver(weight, S \ {x})

NumberOfCalls == SumOver(recorded, DOMAIN recorded)

NumberSucceeded ==
    SumOver([x \in DOMAIN recorded |-> IF x.success THEN recorded[x] ELSE 0],
            DOMAIN recorded)

SuccessLatency ==
    SumOver([x \in DOMAIN recorded |->
                IF x.success THEN x.latency_ms * recorded[x] ELSE 0],
            DOMAIN recorded)

Counts(usage) == SumOver([k \in DOMAIN usage |-> usage[k].count], DOMAIN usage)
Errors(usage) == SumOver([k \in DOMAIN usage |-> usage[k].errors], DOMAIN usage)

\* The statistics were read after the last recorded call.
StatsCurrent ==
    /\ stats # <<>>
    /\ stats.global.total_requests = NumberOfCalls

CountsMatchCalls ==
    /\ STATS.requests_total = NumberOfCalls
    /\ STATS.requests_failed = NumberOfCalls - NumberSucceeded
    /\ Counts(STATS.models_usage) = STATS.requests_total
    /\ Errors(STATS.models_usage) = STATS.requests_failed
    /\ StatsCurrent =>
          /\ stats.global.failed_requests = STATS.requests_failed
          /\ Counts(stats.models) = NumberOfCalls
          /\ Errors(stats.models) = STATS.requests_failed

\* C32 as stated: the counts match the calls and the reported average
\* latency is exactly the summed latency of the successful calls divided by
\* their number, or 0 when no call succeeded.
C32_AverageIsExactQuotient ==
    /\ CountsMatchCalls
    /\ StatsCurrent =>
          IF NumberSucceeded = 0
          THEN stats.global.average_latency_ms = 0
          ELSE stats.global.average_latency_ms * NumberSucceeded
                  = 100 * SuccessLatency

\* C32: after any sequence of record_request calls the totals match the
\* calls, the per-model counts and errors sum to the totals, and the average
\* latency get_stats reports is the summed latency of the successful calls
\* divided by their number and rounded to two decimal places (at most half a
\* hundredth away from the quotient), or 0 when no call succeeded.
C32_AverageIsRoundedQuotient ==
    /\ CountsMatchCalls
    /\ StatsCurrent =>
          IF NumberSucceeded = 0
          THEN stats.global.average_latency_ms = 0
          ELSE LET n == NumberSucceeded
                   off == stats.global.average_latency_ms * n
                             - 100 * SuccessLatency
               IN  /\ 2 * off <= n
                   /\ 2 * off >= 0 - n

\* Three calls succeeded with latencies whose sum is not a multiple of
\* three, one call failed or none, and the statistics were read.
C32_Witness ==
    /\ entry = "record_request"
    /\ StatsCurrent
    /\ NumberSucceeded = 3
    /\ SuccessLatency % 3 # 0
    /\ Cardinality(DOMAIN STATS.models_usage) = 2

Answered == {i \in DOMAIN queries : queries[i].state # "posted"}

\* C37: every query_ollama call that has ended recorded exactly one request
\* metric, the metric is marked successful exactly when the call returned a
\* content result, and the call returned a failure value instead of raising
\* for a timeout, a transport error, an HTTP error status and a malformed
\* response body.
C37_OneMetricSuccessIffContent ==
    entry = "query_ollama" =>
        /\ NumberOfCalls = Cardinality(Answered)
        /\ \A i \in Answered :
              LET metric == queries[i].metric[1]
              IN  /\ metric \in DOMAIN recorded
                  /\ recorded[metric]
                        = Cardinality({j \in Answered : queries[j].metric[1] = metric})
                  /\ metric.model = queries[i].model
                  /\ metric.success
                        <=> (~queries[i].raised /\ queries[i].result # None)
                  /\ queries[i].state \in {"timeout", "transport error",
                                           "http error", "not json", "no message",
                                           "message not an object"}
                        => ~queries[i].raised /\ queries[i].result = None

RosterOf(tasks) == [i \in DOMAIN tasks |-> tasks[i].advisor]

\* C33: within one pipeline invocation the Stage-2 fan-out queries the
\* roster the Stage-1 fan-out queried, also when save_advisors replaces the
\* council configuration while the invocation is in flight.
C33_Stage2QueriesStage1Roster ==
    (entry = "send_message_stream" /\ tasks2 # <<>>) =>
        RosterOf(tasks2) = RosterOf(tasks1)

\* A step in which run_group_chat selects its members.
SelectsMembers ==
    /\ handlers # <<>>
    /\ handlers[1].pc = "call"
    /\ handlers'[1].pc # "call"

MembersOf(roster, member_ids) ==
    LET Chosen(a) == a.id \in SeqRange(member_ids)
    IN  SelectSeq(roster, Chosen)

\* C34: once save_advisors(x) has completed, every reader of the roster uses
\* x: a council fan-out created afterwards is over x, run_group_chat selects
\* its members from x, and GET /api/council/config returns x.
C34_ReadersSeeSavedRoster ==
    [][config_pc = "saved" =>
          /\ (pc = "s1_started" /\ pc' = "s1_gather") =>
                RosterOf(tasks1') = new_advisors
          /\ (pc = "s2_started" /\ pc' = "s2_gather") =>
                RosterOf(tasks2') = new_advisors
          /\ config_seen' # config_seen => config_seen' = new_advisors
          /\ SelectsMembers =>
                handlers'[1].selected_advisors
                   = MembersOf(new_advisors, handlers[1].member_ids)]_vars

\* C38: after update_council_config the advisors of the saved roster have
\* pairwise distinct ids and pairwise distinct prompt files, and the roster
\* lists the requested advisors in request order.
C38_SavedRosterDistinctInOrder ==
    config_pc = "saved" =>
        /\ \A i, j \in DOMAIN ADVISORS :
              i # j => /\ ADVISORS[i].id # ADVISORS[j].id
                       /\ ADVISORS[i].prompt_file # ADVISORS[j].prompt_file
        /\ Len(ADVISORS) = Len(config_request)
        /\ \A i \in DOMAIN ADVISORS :
              /\ ADVISORS[i].name = config_request[i].name
              /\ ADVISORS[i].model = config_request[i].model

====
